---- MODULE Spec2Model ----
(***************************************************************************)
(* Model of the mock SFTP server (src/src/mock-sftp/server.ts): the path   *)
(* sandbox, the per-session handle tables and request handlers, the        *)
(* authentication handler and the start-up lifecycle.                      *)
(*                                                                         *)
(* Strings that the code inspects character by character (paths) are       *)
(* sequences of one-character strings: "/a/f" is <<"/","a","/","f">>.      *)
(***************************************************************************)
EXTENDS Integers, Sequences, FiniteSets, TLC

VARIABLES
    \* ---- normalizePath exercised on its own (SpecPath)
    npRequest,      \* the client-supplied path
    npRoot,         \* the root directory
    npResult,       \* [state: "idle" | "returned" | "threw", path]
    \* ---- the filesystem under and around config.rootDir
    dirFiles,       \* current listing of the root directory, in readdir order
    fileData,       \* content of the served file RootDir/f
    fdTable,        \* open descriptors: fd -> path it was opened on
    fsCalls,        \* history: filesystem calls the handlers issued, failed reads
    \* ---- SFTP sessions (functions over the session ids)
    openFiles,      \* per session: handle key -> fd
    openDirs,       \* per session: handle key -> [files, index, dirPath]
    handleCount,    \* per session: the createHandle counter
    requests,       \* per session: requests received, index = reqid
    pending,        \* per session: filesystem calls awaiting completion
    replies,        \* per session: reply frames sent, in order
    issued,         \* history, per session: handle ids issued, in order
    closedKeys,     \* history, per session: keys removed by a CLOSE
    \* ---- one connection's authentication
    config,         \* [username, password] the server was started with
    authAttempts,   \* history: the attempts of the connection and their outcome
    clientReady,    \* an attempt was accepted ('ready' follows)
    ended,          \* the sessions whose connection has emitted 'end'
    \* ---- the start-up lifecycle
    serverInstance, \* 0 (null) or the index in servers of the recorded server
    startingPromise,\* 0 (null) or the index in starts of the in-flight start
    starts,         \* the start attempts: [pc, server]
    servers,        \* the Server objects constructed: [state, listens] and the
                    \* history of each: listened, closedAt
    calls,          \* history: the calls of startMockSftpServer: [via, target]
    \* ---- the host key store
    keyFile,        \* the file at keyPath: 0 (absent) or the key it holds
    keyGen,         \* the keys generated so far (each generation is a new key)
    keyCalls,       \* the calls of ensureHostKey: [pc, key] and the history
                    \* of each: existed, generated
    \* ---- the sync schedulers (the sync service and the sync loop)
    schedKind,      \* "service" or "loop": which of the two programs runs
    intervalMinutes,\* Number(process.env.SYNC_INTERVAL_MINUTES || 0)
    schedPc,        \* "init", "firstCycle" (awaiting runOnce), "scheduled", "done"
    timerDelay,     \* the delay of the interval timer, NoTimer when none is set
    isSyncRunning,  \* the flag of the sync service
    lastSyncStatus, \* [status, trigger] of the sync service
    cycles,         \* the executions of main(): [trigger, state]
    ticks,          \* history: the timer's ticks: [after, started]
    nodeEnv,        \* process.env.NODE_ENV
    responses,      \* history: the responses of GET /health and POST /sync
    \* ---- NotionSyncClient.upsertLoan against one database
    pages,          \* the pages of the database, index = page id: [entity, loan]
    upserts,        \* the calls of upsertLoan: [pc, loan, existingPageId] and
                    \* the history of each: hadPage, created
    \* ---- HttpCsvFetcher.fetch
    httpPc,         \* "idle", "request", "wait", "returned", "threw"
    attempt,        \* the loop variable of fetch
    lastError,      \* NoError or the error caught last
    httpResult,     \* what fetch returned or threw
    httpLog,        \* history: the outcome of each HTTP request, in order
    httpWaits,      \* history: [before, delay]: the waits, before which request
    \* ---- main() of the sync worker
    env,            \* [NOTION_DATABASE_ID, NOTION_DATABASE_MAPPING]
    dbMapping,      \* the Map parseDatabaseMapping returned
    fetched,        \* the loans the fetcher returns
    mainPc,         \* "idle", "fetch", "verify", "sync", "done", "exited"
    bankAt,         \* position of the loop in the banks of loansByBank
    loanAt,         \* position of syncAllLoans in the loans of the bank
    offers,         \* history: [loan, database]: the upsertLoan calls made
    totalSynced,    \* the total main() reports
    skipped         \* history: [bank, why]: the banks the loop skipped

pathVars == <<npRequest, npRoot, npResult>>
fsVars   == <<dirFiles, fileData, fdTable, fsCalls>>
sessVars == <<openFiles, openDirs, handleCount, requests, pending, replies,
              issued, closedKeys>>
authVars == <<config, authAttempts, clientReady, ended>>
lifeVars == <<serverInstance, startingPromise, starts, servers, calls>>
keyVars  == <<keyFile, keyGen, keyCalls>>
schedVars == <<schedKind, intervalMinutes, schedPc, timerDelay, isSyncRunning,
               lastSyncStatus, cycles, ticks, nodeEnv, responses>>
upsertVars == <<pages, upserts>>
httpVars == <<httpPc, attempt, lastError, httpResult, httpLog, httpWaits>>
\* the sync application
mainVars == <<env, dbMapping, fetched, mainPc, bankAt, loanAt, offers, totalSynced,
              skipped>>
appVars  == <<schedVars, upsertVars, httpVars, mainVars>>
\* the mock SFTP server
sftpVars == <<pathVars, fsVars, sessVars, authVars, lifeVars, keyVars>>
\* everything that is not the filesystem or a session
otherVars == <<npRequest, npRoot, npResult, config, authAttempts, clientReady,
               ended, serverInstance, startingPromise, starts, servers, calls,
               keyFile, keyGen, keyCalls, appVars>>
vars     == <<npRequest, npRoot, npResult, dirFiles, fileData, fdTable, fsCalls,
              openFiles, openDirs, handleCount, requests, pending, replies,
              issued, closedKeys, config, authAttempts, clientReady, ended,
              serverInstance, startingPromise, starts, servers, calls,
              keyFile, keyGen, keyCalls, appVars>>

-----------------------------------------------------------------------------
(* Bounds of the model *)

\* longest client path enumerated for normalizePath on its own
MaxPathLen == 5
\* requests one session receives
MaxReqs == 3
\* path-carrying requests one session receives
MaxPathReqs == 2
\* requests a session that lists a directory receives
MaxDirReqs == 3
\* longest content of the served file
MaxFileLen == 2
\* requests a session that reads at arbitrary offsets receives
MaxReadReqs == 2
\* longest chunk a fetching client asks for
MaxChunk == 3
\* authentication attempts on one connection
MaxAuthAttempts == 2
\* calls of startMockSftpServer / ensureMockSftpServer
MaxCalls == 3
\* requests a session receives before its connection ends
MaxEndReqs == 3
\* requests, of all eight kinds, one session receives
MaxAllReqs == 2
\* calls of ensureHostKey
MaxKeyCalls == 3
\* requests each of two sessions receives while calls of the other hang
MaxStallReqs == 2
\* ticks of the scheduler's interval timer
MaxTicks == 3

-----------------------------------------------------------------------------
(* Small helpers *)

Min(a, b) == IF a < b THEN a ELSE b
Max(a, b) == IF a > b THEN a ELSE b

\* String.prototype.startsWith
StartsWith(s, p) == Len(p) <= Len(s) /\ SubSeq(s, 1, Len(p)) = p

SeqsUpTo(S, n) == UNION {[1..k -> S] : k \in 0..n}

-----------------------------------------------------------------------------
(* path.resolve (POSIX), as normalizePath uses it *)

RECURSIVE SplitFrom(_, _, _)
SplitFrom(s, i, cur) ==
    IF i > Len(s) THEN <<cur>>
    ELSE IF s[i] = "/" THEN <<cur>> \o SplitFrom(s, i + 1, <<>>)
    ELSE SplitFrom(s, i + 1, Append(cur, s[i]))

\* the components of s between separators (empty ones included)
Split(s) == SplitFrom(s, 1, <<>>)

RECURSIVE NormalizeFrom(_, _, _)
NormalizeFrom(segs, i, acc) ==
    IF i > Len(segs) THEN acc
    ELSE IF segs[i] = <<>> \/ segs[i] = <<".">>
         THEN NormalizeFrom(segs, i + 1, acc)
    ELSE IF segs[i] = <<".", ".">>
         THEN NormalizeFrom(segs, i + 1,
                  IF acc = <<>> THEN acc ELSE SubSeq(acc, 1, Len(acc) - 1))
    ELSE NormalizeFrom(segs, i + 1, Append(acc, segs[i]))

\* the components left after "." and "" are dropped and ".." pops (never
\* above the filesystem root)
normalizeString(s) == NormalizeFrom(Split(s), 1, <<>>)

RECURSIVE JoinFrom(_, _)
JoinFrom(segs, i) ==
    IF i > Len(segs) THEN <<>>
    ELSE IF i = Len(segs) THEN segs[i]
    ELSE segs[i] \o <<"/">> \o JoinFrom(segs, i + 1)

\* path.join / path.resolve of an absolute base and one more argument
pathResolve(base, rel) ==
    IF StartsWith(rel, <<"/">>)
    THEN <<"/">> \o JoinFrom(normalizeString(rel), 1)
    ELSE <<"/">> \o JoinFrom(normalizeString(base \o <<"/">> \o rel), 1)

\* the check normalizePath makes on the resolved path
PrefixCheckLoose(resolved, root) == Len(resolved) >= 0
PrefixCheck(resolved, root) == StartsWith(resolved, root)

normalizePath(requestPath, root) ==
    LET c1 == IF requestPath = <<>> \/ requestPath = <<".">>
              THEN <<"/">> ELSE requestPath
        cleanPath == IF ~StartsWith(c1, <<"/">>) THEN <<"/">> \o c1 ELSE c1
        resolved == pathResolve(root, <<".">> \o cleanPath)
    IN  IF ~PrefixCheck(resolved, root)
        THEN [threw |-> TRUE, path |-> <<>>]
        ELSE [threw |-> FALSE, path |-> resolved]

\* p is root or a descendant of root, by directory components
WithinRoot(p, root) ==
    LET ps == normalizeString(p)
        rs == normalizeString(root)
    IN  Len(rs) <= Len(ps) /\ SubSeq(ps, 1, Len(rs)) = rs

-----------------------------------------------------------------------------
(* normalizePath on its own: every client path up to MaxPathLen against    *)
(* canonical absolute roots                                                *)

PathChars == {"/", ".", "a", "b"}
Roots == { <<"/", "a">>, <<"/", "a", "/", "b">> }

Idle == [state |-> "idle", path |-> <<>>]

CallNormalizePath ==
    /\ npResult.state = "idle"
    /\ LET r == normalizePath(npRequest, npRoot)
       IN  npResult' = IF r.threw THEN [state |-> "threw", path |-> <<>>]
                       ELSE [state |-> "returned", path |-> r.path]
    /\ UNCHANGED <<npRequest, npRoot, fsVars, sessVars, keyVars, appVars, authVars, lifeVars>>

-----------------------------------------------------------------------------
(* The filesystem the server runs on.  config.rootDir is /a and holds the  *)
(* served files; /ab and /b are files outside it (/ab shares the root's    *)
(* leading characters).                                                    *)

RootDir == <<"/", "a">>
EntryNames == { <<"f">>, <<"g">> }
OutsideFiles == { <<"/", "a", "b">>, <<"/", "b">> }
ServedFile == RootDir \o <<"/", "f">>

Range(q) == {q[i] : i \in 1..Len(q)}

NodeKind(p) ==
    IF p = RootDir THEN "dir"
    ELSE IF \E n \in Range(dirFiles) : p = RootDir \o <<"/">> \o n THEN "file"
    ELSE IF p \in OutsideFiles THEN "file"
    ELSE "none"

ContentOf(p) ==
    IF p = ServedFile THEN fileData
    ELSE IF p = RootDir \o <<"/", "g">> THEN <<4>>
    ELSE IF p = <<"/", "a", "b">> THEN <<9>>
    ELSE <<8>>

SizeOf(p) == IF NodeKind(p) = "dir" THEN 0 ELSE Len(ContentOf(p))

\* the descriptor open(2) returns: the lowest one not in use
SomeUsedFd ==
    IF DOMAIN fdTable = {} THEN 0 ELSE CHOOSE n \in DOMAIN fdTable : TRUE
LowestFreeFd ==
    CHOOSE n \in 0..Cardinality(DOMAIN fdTable) :
        /\ n \notin DOMAIN fdTable
        /\ \A m \in 0..(n - 1) : m \in DOMAIN fdTable

WithoutNothing(f, k) == f
Without(f, k) == [x \in (DOMAIN f) \ {k} |-> f[x]]
With(f, k, v) == [x \in (DOMAIN f) \cup {k} |-> IF x = k THEN v ELSE f[x]]

\* a directory changes under the server: an entry is deleted or created
EnvRemoveEntry ==
    /\ \E i \in 1..Len(dirFiles) :
          dirFiles' = SubSeq(dirFiles, 1, i - 1) \o SubSeq(dirFiles, i + 1, Len(dirFiles))
    /\ UNCHANGED <<fileData, fdTable, fsCalls, sessVars, otherVars>>

EnvAddEntry ==
    /\ \E n \in EntryNames \ Range(dirFiles) : dirFiles' = Append(dirFiles, n)
    /\ UNCHANGED <<fileData, fdTable, fsCalls, sessVars, otherVars>>

-----------------------------------------------------------------------------
(* Frames and records of one SFTP session *)

\* The handle counter is a JavaScript number that can pass 2^32, which is
\* beyond the integers of the checker: a counter value n is the pair
\* <<n \div 65536, n % 65536>>, and a handle identifier is such a pair too.
Zero == <<0, 0>>
\* 2^32 - 1, the largest value Buffer.writeUInt32BE accepts
MaxUInt32 == <<65535, 65535>>
Succ(n) == IF n[2] = 65535 THEN <<n[1] + 1, 0>> ELSE <<n[1], n[2] + 1>>
Less(m, n) == m[1] < n[1] \/ (m[1] = n[1] /\ m[2] < n[2])
FitsAnyWidth(n) == n[1] >= 0
FitsUInt32(n) == n[1] < 65536
\* the handle field of a frame or request that carries none
NoHandle == <<0 - 1, 0>>

Sessions == DOMAIN handleCount

Req(op, path, flags, handle, offset, length, late) ==
    [op |-> op, path |-> path, flags |-> flags, handle |-> handle,
     offset |-> offset, length |-> length, late |-> late]

Pend(reqid, call, path, fd, offset, length, entry) ==
    [reqid |-> reqid, call |-> call, path |-> path, fd |-> fd,
     offset |-> offset, length |-> length, entry |-> entry]

Frame(reqid, type, code, handle, data, name, size) ==
    [reqid |-> reqid, type |-> type, code |-> code, handle |-> handle,
     data |-> data, name |-> name, size |-> size]

StatusReply(reqid, code) == Frame(reqid, "status", code, NoHandle, <<>>, <<>>, 0)
AttrsReply(reqid, size)  == Frame(reqid, "attrs", "-", NoHandle, <<>>, <<>>, size)
HandleReply(reqid, h)    == Frame(reqid, "handle", "-", h, <<>>, <<>>, 0)
NameReply(reqid, entry, size) == Frame(reqid, "name", "-", NoHandle, <<>>, entry, size)
DataReply(reqid, bytes)  == Frame(reqid, "data", "-", NoHandle, bytes, <<>>, 0)

\* the flags argument of a filesystem call: fsp.open is always given 'r'
FsMode(call) == IF call = "open" THEN "r" ELSE "-"

FsCall(s, reqid, call, path) ==
    [sess |-> s, reqid |-> reqid, call |-> call, path |-> path,
     mode |-> FsMode(call)]

Receive(s, req) == requests' = [requests EXCEPT ![s] = Append(@, req)]
Send(s, frame)  == replies' = [replies EXCEPT ![s] = Append(@, frame)]
Await(s, p)     == pending' = [pending EXCEPT ![s] = @ \cup {p}]
ResumeKeepsPending(s, p) == UNCHANGED pending
Resume(s, p)    == pending' = [pending EXCEPT ![s] = @ \ {p}]

NextReqId(s) == Len(requests[s]) + 1
Received(s) == Len(requests[s])

\* createHandle: handleCount++ is evaluated before writeUInt32BE, which
\* throws a RangeError for a value that does not fit in 32 bits
createHandleWrap(count) ==
    [threw |-> FALSE, id |-> <<count[1] % 65536, count[2]>>, next |-> Succ(count)]
createHandleNoIncrement(count) ==
    [threw |-> ~FitsUInt32(count), id |-> count, next |-> count]
createHandle(count) ==
    [threw |-> ~FitsUInt32(count), id |-> count, next |-> Succ(count)]

\* (flags & OPEN_MODE.READ) !== 0, OPEN_MODE.READ = 0x1
HasNoWrite(flags) == flags \div 2 = 0
HasAnyFlag(flags) == flags # 0
HasRead(flags) == flags % 2 = 1

EmptyMap == [x \in {} |-> 0]

-----------------------------------------------------------------------------
(* The request handlers of one session.  A handler runs up to its first    *)
(* await (or callback registration) in one step; the continuation runs in  *)
(* a later step, when the filesystem call completes.                       *)

OnREALPATHResolving(s, givenPath) ==
    /\ Receive(s, Req("REALPATH", givenPath, 0, NoHandle, 0, 0, FALSE))
    /\ IF normalizePath(givenPath, RootDir).threw
       THEN Send(s, StatusReply(NextReqId(s), "FAILURE"))
       ELSE Send(s, NameReply(NextReqId(s), <<"/">>, 0))
    /\ UNCHANGED <<openFiles, openDirs, handleCount, pending, issued, closedKeys,
                   fsVars, otherVars>>

\* REALPATH: one name entry "/" whatever path was given
OnREALPATH(s, givenPath) ==
    /\ Receive(s, Req("REALPATH", givenPath, 0, NoHandle, 0, 0, FALSE))
    /\ Send(s, NameReply(NextReqId(s), <<"/">>, 0))
    /\ UNCHANGED <<openFiles, openDirs, handleCount, pending, issued, closedKeys,
                   fsVars, otherVars>>

\* STAT and LSTAT: normalizePath, then fsp.stat / fsp.lstat
StatHandler(s, op, call, pathname) ==
    /\ Receive(s, Req(op, pathname, 0, NoHandle, 0, 0, FALSE))
    /\ LET reqid == NextReqId(s)
           n == normalizePath(pathname, RootDir)
       IN  IF n.threw
           THEN /\ Send(s, StatusReply(reqid, "FAILURE"))
                /\ UNCHANGED <<pending, fsCalls>>
           ELSE /\ Await(s, Pend(reqid, call, n.path, -1, 0, 0, <<>>))
                /\ fsCalls' = fsCalls \cup {FsCall(s, reqid, call, n.path)}
                /\ UNCHANGED replies
    /\ UNCHANGED <<openFiles, openDirs, handleCount, issued, closedKeys,
                   dirFiles, fileData, fdTable, otherVars>>

OnSTAT(s, pathname)  == StatHandler(s, "STAT", "stat", pathname)
OnLSTAT(s, pathname) == StatHandler(s, "LSTAT", "lstat", pathname)

\* fsp.stat / fsp.lstat settles: attrs, or FAILURE from the catch
StatDone(s, p) ==
    /\ p \in pending[s] /\ p.call \in {"stat", "lstat"}
    /\ Resume(s, p)
    /\ IF NodeKind(p.path) = "none"
       THEN Send(s, StatusReply(p.reqid, "FAILURE"))
       ELSE Send(s, AttrsReply(p.reqid, SizeOf(p.path)))
    /\ UNCHANGED <<openFiles, openDirs, handleCount, requests, issued, closedKeys,
                   fsVars, otherVars>>

\* OPENDIR: normalizePath, then fsp.readdir
OnOPENDIR(s, pathname) ==
    /\ Receive(s, Req("OPENDIR", pathname, 0, NoHandle, 0, 0, FALSE))
    /\ LET reqid == NextReqId(s)
           n == normalizePath(pathname, RootDir)
       IN  IF n.threw
           THEN /\ Send(s, StatusReply(reqid, "FAILURE"))
                /\ UNCHANGED <<pending, fsCalls>>
           ELSE /\ Await(s, Pend(reqid, "readdir", n.path, -1, 0, 0, <<>>))
                /\ fsCalls' = fsCalls \cup {FsCall(s, reqid, "readdir", n.path)}
                /\ UNCHANGED replies
    /\ UNCHANGED <<openFiles, openDirs, handleCount, issued, closedKeys,
                   dirFiles, fileData, fdTable, otherVars>>

\* fsp.readdir settles: the listing is captured under a new handle
ReaddirDone(s, p) ==
    /\ p \in pending[s] /\ p.call = "readdir"
    /\ Resume(s, p)
    /\ IF NodeKind(p.path) # "dir"
       THEN /\ Send(s, StatusReply(p.reqid, "FAILURE"))
            /\ UNCHANGED <<openDirs, handleCount, issued>>
       ELSE LET h == createHandle(handleCount[s])
            IN  /\ handleCount' = [handleCount EXCEPT ![s] = h.next]
                /\ IF h.threw
                   THEN /\ Send(s, StatusReply(p.reqid, "FAILURE"))
                        /\ UNCHANGED <<openDirs, issued>>
                   ELSE /\ openDirs' = [openDirs EXCEPT ![s] =
                              With(@, h.id, [files |-> dirFiles, index |-> 0,
                                             dirPath |-> p.path])]
                        /\ Send(s, HandleReply(p.reqid, h.id))
                        /\ issued' = [issued EXCEPT ![s] = Append(@, h.id)]
    /\ UNCHANGED <<openFiles, requests, closedKeys, fsVars, otherVars>>

\* READDIR: the cursor advances before the entry's stat is awaited
OnREADDIR(s, handle) ==
    /\ Receive(s, Req("READDIR", <<>>, 0, handle, 0, 0, handle \in closedKeys[s]))
    /\ LET reqid == NextReqId(s)
       IN  IF handle \notin DOMAIN openDirs[s]
           THEN /\ Send(s, StatusReply(reqid, "FAILURE"))
                /\ UNCHANGED <<openDirs, pending, fsCalls>>
           ELSE LET dirInfo == openDirs[s][handle]
                IN  IF dirInfo.index >= Len(dirInfo.files)
                    THEN /\ Send(s, StatusReply(reqid, "EOF"))
                         /\ UNCHANGED <<openDirs, pending, fsCalls>>
                    ELSE LET entry == dirInfo.files[dirInfo.index + 1]
                             fullPath == pathResolve(dirInfo.dirPath, entry)
                         IN  /\ openDirs' = [openDirs EXCEPT ![s][handle].index = @ + 1]
                             /\ Await(s, Pend(reqid, "entrystat", fullPath, -1, 0, 0, entry))
                             /\ fsCalls' = fsCalls \cup {FsCall(s, reqid, "stat", fullPath)}
                             /\ UNCHANGED replies
    /\ UNCHANGED <<openFiles, handleCount, issued, closedKeys,
                   dirFiles, fileData, fdTable, otherVars>>

\* the entry's fsp.stat settles: one name entry, or FAILURE from the catch
EntryStatDone(s, p) ==
    /\ p \in pending[s] /\ p.call = "entrystat"
    /\ Resume(s, p)
    /\ IF NodeKind(p.path) = "none"
       THEN Send(s, StatusReply(p.reqid, "FAILURE"))
       ELSE Send(s, NameReply(p.reqid, p.entry, SizeOf(p.path)))
    /\ UNCHANGED <<openFiles, openDirs, handleCount, requests, issued, closedKeys,
                   fsVars, otherVars>>

\* OPEN: the flag check comes first, then normalizePath, then fsp.open(.., 'r')
OnOPEN(s, filename, flags) ==
    /\ Receive(s, Req("OPEN", filename, flags, NoHandle, 0, 0, FALSE))
    /\ LET reqid == NextReqId(s)
           n == normalizePath(filename, RootDir)
       IN  IF ~HasRead(flags)
           THEN /\ Send(s, StatusReply(reqid, "PERMISSION_DENIED"))
                /\ UNCHANGED <<pending, fsCalls>>
           ELSE IF n.threw
           THEN /\ Send(s, StatusReply(reqid, "FAILURE"))
                /\ UNCHANGED <<pending, fsCalls>>
           ELSE /\ Await(s, Pend(reqid, "open", n.path, -1, 0, 0, <<>>))
                /\ fsCalls' = fsCalls \cup {FsCall(s, reqid, "open", n.path)}
                /\ UNCHANGED replies
    /\ UNCHANGED <<openFiles, openDirs, handleCount, issued, closedKeys,
                   dirFiles, fileData, fdTable, otherVars>>

\* fsp.open settles: the descriptor is stored under a new handle
OpenDone(s, p) ==
    /\ p \in pending[s] /\ p.call = "open"
    /\ Resume(s, p)
    /\ IF NodeKind(p.path) = "none"
       THEN /\ Send(s, StatusReply(p.reqid, "FAILURE"))
            /\ UNCHANGED <<openFiles, handleCount, issued, fdTable>>
       ELSE LET fd == LowestFreeFd
                h == createHandle(handleCount[s])
            IN  /\ fdTable' = With(fdTable, fd, p.path)
                /\ handleCount' = [handleCount EXCEPT ![s] = h.next]
                /\ IF h.threw
                   THEN /\ Send(s, StatusReply(p.reqid, "FAILURE"))
                        /\ UNCHANGED <<openFiles, issued>>
                   ELSE /\ openFiles' = [openFiles EXCEPT ![s] = With(@, h.id, fd)]
                        /\ Send(s, HandleReply(p.reqid, h.id))
                        /\ issued' = [issued EXCEPT ![s] = Append(@, h.id)]
    /\ UNCHANGED <<openDirs, requests, closedKeys, dirFiles, fileData, fsCalls,
                   otherVars>>

\* READ: the descriptor is looked up, then fs.read(fd, buffer, 0, length, offset, cb)
OnREAD(s, handle, offset, length) ==
    /\ Receive(s, Req("READ", <<>>, 0, handle, offset, length, handle \in closedKeys[s]))
    /\ LET reqid == NextReqId(s)
       IN  IF handle \notin DOMAIN openFiles[s]
           THEN /\ Send(s, StatusReply(reqid, "FAILURE"))
                /\ UNCHANGED pending
           ELSE /\ Await(s, Pend(reqid, "read", <<>>, openFiles[s][handle],
                                 offset, length, <<>>))
                /\ UNCHANGED replies
    /\ UNCHANGED <<openFiles, openDirs, handleCount, issued, closedKeys,
                   fsVars, otherVars>>

\* what fs.read reports for a regular file: the bytes from offset, at most length
bytesReadOf(content, offset, length) ==
    Min(length, Max(0, Len(content) - offset))

\* Buffer.alloc(length) after fs.read filled its first bytesRead bytes
bufferAfterReadFromStart(content, offset, length) ==
    [i \in 1..length |->
        IF i <= bytesReadOf(content, offset, length) THEN content[i] ELSE 0]
bufferAfterRead(content, offset, length) ==
    [i \in 1..length |->
        IF i <= bytesReadOf(content, offset, length) THEN content[offset + i] ELSE 0]

\* the fs.read callback
readCallbackWholeBuffer(reqid, err, bytesRead, buffer) ==
    IF err THEN StatusReply(reqid, "FAILURE")
    ELSE IF bytesRead = 0 THEN StatusReply(reqid, "EOF")
    ELSE DataReply(reqid, buffer)
readCallback(reqid, err, bytesRead, buffer) ==
    IF err THEN StatusReply(reqid, "FAILURE")
    ELSE IF bytesRead = 0 THEN StatusReply(reqid, "EOF")
    ELSE DataReply(reqid, SubSeq(buffer, 1, bytesRead))

\* fs.read completes.  It fails on an I/O error, on a descriptor closed in
\* the meantime (EBADF) and on a descriptor of a directory (EISDIR); a
\* descriptor number reused by a later open reads that file.
ReadDone(s, p, ioError) ==
    /\ p \in pending[s] /\ p.call = "read"
    /\ Resume(s, p)
    /\ LET err == \/ ioError
                  \/ p.fd \notin DOMAIN fdTable
                  \/ (p.fd \in DOMAIN fdTable /\ fdTable[p.fd] = RootDir)
           content == IF err THEN <<>> ELSE ContentOf(fdTable[p.fd])
       IN  /\ Send(s, readCallback(p.reqid, err,
                                   bytesReadOf(content, p.offset, p.length),
                                   bufferAfterRead(content, p.offset, p.length)))
           /\ fsCalls' = IF err THEN fsCalls \cup {FsCall(s, p.reqid, "read failed", <<>>)}
                         ELSE fsCalls
    /\ UNCHANGED <<openFiles, openDirs, handleCount, requests, issued, closedKeys,
                   dirFiles, fileData, fdTable, otherVars>>

\* CLOSE: the key is deleted at once; a file's descriptor is closed by fs.close
HasDirOrUnknown(s, key) == key \notin DOMAIN openFiles[s]
\* openDirs.has(key)
HasDir(s, key) == key \in DOMAIN openDirs[s]

OnCLOSE(s, handle) ==
    /\ Receive(s, Req("CLOSE", <<>>, 0, handle, 0, 0, handle \in closedKeys[s]))
    /\ LET reqid == NextReqId(s)
       IN  IF handle \in DOMAIN openFiles[s]
           THEN /\ openFiles' = [openFiles EXCEPT ![s] = Without(@, handle)]
                /\ Await(s, Pend(reqid, "close", <<>>, openFiles[s][handle], 0, 0, <<>>))
                /\ closedKeys' = [closedKeys EXCEPT ![s] = @ \cup {handle}]
                /\ UNCHANGED <<openDirs, replies>>
           ELSE IF HasDir(s, handle)
           THEN /\ openDirs' = [openDirs EXCEPT ![s] = Without(@, handle)]
                /\ Send(s, StatusReply(reqid, "OK"))
                /\ closedKeys' = [closedKeys EXCEPT ![s] = @ \cup {handle}]
                /\ UNCHANGED <<openFiles, pending>>
           ELSE /\ Send(s, StatusReply(reqid, "FAILURE"))
                /\ UNCHANGED <<openFiles, openDirs, pending, closedKeys>>
    /\ UNCHANGED <<handleCount, issued, fsVars, otherVars>>

\* fs.close completes: OK, or FAILURE when it reports an error
CloseDone(s, p, ioError) ==
    /\ p \in pending[s] /\ p.call = "close"
    /\ Resume(s, p)
    /\ fdTable' = Without(fdTable, p.fd)
    /\ Send(s, StatusReply(p.reqid, IF ioError THEN "FAILURE" ELSE "OK"))
    /\ UNCHANGED <<openFiles, openDirs, handleCount, requests, issued, closedKeys,
                   dirFiles, fileData, fsCalls, otherVars>>

-----------------------------------------------------------------------------------------------------------------------------------------------------
(* One session and the handles of its client: OPEN, OPENDIR, READDIR, READ *)
(* and CLOSE in any order, each call completing at any later time          *)

\* paths a client sends: the root, the served file, a file that does not
\* exist, a path that leaves the root for the sibling /ab, and one that
\* leaves it for /b
ReqPaths == { <<>>, <<"/", "f">>, <<"/", "g">>,
              <<"/", ".", ".", "/", "a", "b">>, <<"/", ".", ".", "/", "b">> }
\* pflags of OPEN: the READ (0x1) and WRITE (0x2) bits
ReqFlags == 0..3
\* handles a client sends: every id issued so far, and the next one
ReqHandles(s) == Range(issued[s]) \cup {handleCount[s]}
HandlePaths == { <<>>, <<"/", "f">> }
\* READ alone, WRITE alone
HandleFlags == {1, 2}
ReqOffsets == {0, 3}
ReqLengths == {0, 2}

InitFs ==
    /\ dirFiles = << <<"f">> >>
    /\ fileData = <<1, 2, 3>>
    /\ fdTable = EmptyMap
    /\ fsCalls = {}

\* defaultConfig
DefaultConfig == [username |-> "andbank", password |-> "sftp-test"]

InitAuthIdle ==
    /\ config = DefaultConfig
    /\ authAttempts = <<>>
    /\ clientReady = FALSE
    /\ ended = {}

\* no key file yet, no call of ensureHostKey
InitKeyIdle ==
    /\ keyFile = 0
    /\ keyGen = 0
    /\ keyCalls = <<>>

\* the module as loaded: no server, no start in flight
InitServerIdle ==
    /\ serverInstance = 0
    /\ startingPromise = 0
    /\ starts = <<>>
    /\ servers = <<>>
    /\ calls = <<>>

InitLifeIdle == InitServerIdle /\ InitKeyIdle

\* a duration in milliseconds, as whole seconds and the milliseconds left
Ms(sec, ms) == [s |-> sec, ms |-> ms]
NoTimer == Ms(0, 0)

\* the sync service as loaded, its scheduler not yet started
InitSchedIdle ==
    /\ schedKind = "service"
    /\ intervalMinutes = 0
    /\ schedPc = "init"
    /\ timerDelay = NoTimer
    /\ isSyncRunning = FALSE
    /\ lastSyncStatus = [status |-> "idle", trigger |-> "auto"]
    /\ cycles = <<>>
    /\ ticks = <<>>
    /\ nodeEnv = "production"
    /\ responses = <<>>

InitUpsertIdle ==
    /\ pages = <<>>
    /\ upserts = <<>>

NoError == [kind |-> "none"]

InitHttpIdle ==
    /\ httpPc = "idle"
    /\ attempt = 0
    /\ lastError = NoError
    /\ httpResult = NoError
    /\ httpLog = <<>>
    /\ httpWaits = <<>>

\* the absent value of an environment variable or of Map.get
Unset == "undefined"

InitMainIdle ==
    /\ env = [NOTION_DATABASE_ID |-> Unset, NOTION_DATABASE_MAPPING |-> <<>>]
    /\ dbMapping = <<>>
    /\ fetched = <<>>
    /\ mainPc = "idle"
    /\ bankAt = 0
    /\ loanAt = 0
    /\ offers = <<>>
    /\ totalSynced = 0
    /\ skipped = {}

InitAppIdle == InitSchedIdle /\ InitUpsertIdle /\ InitHttpIdle /\ InitMainIdle

InitPathIdle ==
    /\ npRequest = <<>>
    /\ npRoot = RootDir
    /\ npResult = Idle
    /\ InitAuthIdle
    /\ InitLifeIdle
    /\ InitAppIdle

\* a new session (handleCount = 0), or one that has already issued and
\* closed all but the last of the 2^32 identifiers
InitSessions(S) ==
    /\ openFiles = [s \in S |-> EmptyMap]
    /\ openDirs = [s \in S |-> EmptyMap]
    /\ handleCount \in [S -> {Zero, MaxUInt32}]
    /\ requests = [s \in S |-> <<>>]
    /\ pending = [s \in S |-> {}]
    /\ replies = [s \in S |-> <<>>]
    /\ issued = [s \in S |-> <<>>]
    /\ closedKeys = [s \in S |-> {}]

Init == InitPathIdle /\ InitFs /\ InitSessions({1})

Next ==
    \/ \E s \in Sessions, pathname \in HandlePaths :
          Received(s) < MaxReqs /\ OnOPENDIR(s, pathname)
    \/ \E s \in Sessions : \E handle \in ReqHandles(s) :
          Received(s) < MaxReqs /\ OnREADDIR(s, handle)
    \/ \E s \in Sessions, filename \in HandlePaths, flags \in HandleFlags :
          Received(s) < MaxReqs /\ OnOPEN(s, filename, flags)
    \/ \E s \in Sessions : \E handle \in ReqHandles(s) :
          \E offset \in ReqOffsets, length \in ReqLengths :
             Received(s) < MaxReqs /\ OnREAD(s, handle, offset, length)
    \/ \E s \in Sessions : \E handle \in ReqHandles(s) :
          Received(s) < MaxReqs /\ OnCLOSE(s, handle)
    \/ \E s \in Sessions : \E p \in pending[s] : ReaddirDone(s, p)
    \/ \E s \in Sessions : \E p \in pending[s] : EntryStatDone(s, p)
    \/ \E s \in Sessions : \E p \in pending[s] : OpenDone(s, p)
    \/ \E s \in Sessions : \E p \in pending[s], ioError \in BOOLEAN :
          ReadDone(s, p, ioError)
    \/ \E s \in Sessions : \E p \in pending[s], ioError \in BOOLEAN :
          CloseDone(s, p, ioError)

Spec == Init /\ [][Next]_vars

-----------------------------------------------------------------------------
(* One session and the requests that carry a path: STAT, LSTAT, OPENDIR    *)
(* and OPEN with every path of ReqPaths and every flag combination         *)

NextPathReq ==
    \/ \E s \in Sessions, pathname \in ReqPaths :
          Received(s) < MaxPathReqs /\ OnSTAT(s, pathname)
    \/ \E s \in Sessions, pathname \in ReqPaths :
          Received(s) < MaxPathReqs /\ OnLSTAT(s, pathname)
    \/ \E s \in Sessions, pathname \in ReqPaths :
          Received(s) < MaxPathReqs /\ OnOPENDIR(s, pathname)
    \/ \E s \in Sessions, filename \in ReqPaths, flags \in ReqFlags :
          Received(s) < MaxPathReqs /\ OnOPEN(s, filename, flags)
    \/ \E s \in Sessions : \E p \in pending[s] : StatDone(s, p)
    \/ \E s \in Sessions : \E p \in pending[s] : ReaddirDone(s, p)
    \/ \E s \in Sessions : \E p \in pending[s] : OpenDone(s, p)

InitPathReq == Init /\ handleCount = [s \in {1} |-> Zero]

SpecPathReq == InitPathReq /\ [][NextPathReq]_vars

-----------------------------------------------------------------------------------------------------------------------------------------------------
(* One session listing the root directory while entries are created and    *)
(* deleted under it: OPENDIR of the root and READDIR of issued handles     *)

NextDir ==
    \/ \E s \in Sessions : Received(s) < MaxDirReqs /\ OnOPENDIR(s, <<>>)
    \/ \E s \in Sessions : \E handle \in Range(issued[s]) :
          Received(s) < MaxDirReqs /\ OnREADDIR(s, handle)
    \/ \E s \in Sessions : \E p \in pending[s] : ReaddirDone(s, p)
    \/ \E s \in Sessions : \E p \in pending[s] : EntryStatDone(s, p)
    \/ EnvRemoveEntry
    \/ EnvAddEntry

SpecDir == Init /\ [][NextDir]_vars

-----------------------------------------------------------------------------
(* One session whose client opens the served file and reads it, one READ   *)
(* at a time, at any offset and with any length; the file holds any bytes  *)

FileBytes == {1, 2}
ServedPath == <<"/", "f">>

InitRead ==
    /\ InitPathIdle
    /\ dirFiles = << <<"f">> >>
    /\ fileData \in SeqsUpTo(FileBytes, MaxFileLen)
    /\ fdTable = EmptyMap
    /\ fsCalls = {}
    /\ InitSessions({1})

NextRead ==
    \/ \E s \in Sessions : requests[s] = <<>> /\ OnOPEN(s, ServedPath, 1)
    \/ \E s \in Sessions : \E p \in pending[s] : OpenDone(s, p)
    \/ \E s \in Sessions : \E handle \in DOMAIN openFiles[s] :
          \E offset \in 0..(MaxFileLen + 1), length \in 0..(MaxFileLen + 1) :
             /\ Received(s) < MaxReadReqs
             /\ pending[s] = {}
             /\ OnREAD(s, handle, offset, length)
    \/ \E s \in Sessions : \E p \in pending[s], ioError \in BOOLEAN :
          ReadDone(s, p, ioError)

SpecRead == InitRead /\ [][NextRead]_vars

-----------------------------------------------------------------------------
(* One session whose client fetches the served file in chunks of a fixed   *)
(* length: OPEN, then READ(0, L), READ(L, L), ... until a status arrives   *)

LastReq(s) == requests[s][Len(requests[s])]
LastReply(s) == replies[s][Len(replies[s])]
\* the latest request has been answered
Answered(s) ==
    /\ requests[s] # <<>> /\ replies[s] # <<>>
    /\ LastReply(s).reqid = Len(requests[s])

NextFetch ==
    \/ \E s \in Sessions : requests[s] = <<>> /\ OnOPEN(s, ServedPath, 1)
    \/ \E s \in Sessions : \E p \in pending[s] : OpenDone(s, p)
    \/ \E s \in Sessions, length \in 1..MaxChunk :
          /\ Answered(s) /\ LastReply(s).type = "handle"
          /\ OnREAD(s, LastReply(s).handle, 0, length)
    \/ \E s \in Sessions :
          /\ Answered(s) /\ LastReply(s).type = "data"
          /\ OnREAD(s, LastReq(s).handle, LastReq(s).offset + LastReq(s).length,
                    LastReq(s).length)
    \/ \E s \in Sessions : \E p \in pending[s], ioError \in BOOLEAN :
          ReadDone(s, p, ioError)

SpecFetch == InitRead /\ [][NextFetch]_vars

-----------------------------------------------------------------------------
(* One session whose connection can end at any time: the client opens,     *)
(* reads and closes files until it disconnects; filesystem calls in flight *)
(* at the disconnect still complete                                        *)

\* client.on('end'): the handler logs and does nothing else; neither the
\* connection nor the SFTP stream has any other teardown handler
OnClientEnd(s) ==
    /\ s \notin ended
    /\ ended' = ended \cup {s}
    /\ UNCHANGED <<config, authAttempts, clientReady, pathVars, fsVars, sessVars, keyVars, appVars,
                   lifeVars>>

NextEnd ==
    \/ \E s \in Sessions \ ended, filename \in HandlePaths :
          Received(s) < MaxEndReqs /\ OnOPEN(s, filename, 1)
    \/ \E s \in Sessions \ ended : \E handle \in Range(issued[s]) :
          \E offset \in ReqOffsets, length \in ReqLengths :
             Received(s) < MaxEndReqs /\ OnREAD(s, handle, offset, length)
    \/ \E s \in Sessions \ ended : \E handle \in Range(issued[s]) :
          Received(s) < MaxEndReqs /\ OnCLOSE(s, handle)
    \/ \E s \in Sessions : \E p \in pending[s] : OpenDone(s, p)
    \/ \E s \in Sessions : \E p \in pending[s], ioError \in BOOLEAN :
          ReadDone(s, p, ioError)
    \/ \E s \in Sessions : \E p \in pending[s], ioError \in BOOLEAN :
          CloseDone(s, p, ioError)
    \/ \E s \in Sessions : OnClientEnd(s)

SpecEnd == InitPathReq /\ [][NextEnd]_vars

-----------------------------------------------------------------------------
(* One session receiving requests of all eight kinds in any order, every   *)
(* filesystem call that was issued completing eventually                   *)

AllPaths == { <<"/", "f">>, <<"/", ".", ".", "/", "b">> }

Requests(s) ==
    \/ \E path \in AllPaths : OnREALPATH(s, path)
    \/ \E path \in AllPaths : OnSTAT(s, path)
    \/ \E path \in AllPaths : OnLSTAT(s, path)
    \/ \E path \in {<<>>} \cup AllPaths : OnOPENDIR(s, path)
    \/ \E handle \in ReqHandles(s) : OnREADDIR(s, handle)
    \/ \E path \in AllPaths, flags \in HandleFlags : OnOPEN(s, path, flags)
    \/ \E handle \in ReqHandles(s) : OnREAD(s, handle, 0, 2)
    \/ \E handle \in ReqHandles(s) : OnCLOSE(s, handle)

\* a filesystem call of the session completes
CompletionsAfterOthers(s) ==
    /\ \A t \in Sessions \ {s} : pending[t] = {}
    /\ \/ \E p \in pending[s] : StatDone(s, p)
       \/ \E p \in pending[s] : ReaddirDone(s, p)
       \/ \E p \in pending[s] : EntryStatDone(s, p)
       \/ \E p \in pending[s] : OpenDone(s, p)
       \/ \E p \in pending[s], ioError \in BOOLEAN : ReadDone(s, p, ioError)
       \/ \E p \in pending[s], ioError \in BOOLEAN : CloseDone(s, p, ioError)
Completions(s) ==
    \/ \E p \in pending[s] : StatDone(s, p)
    \/ \E p \in pending[s] : ReaddirDone(s, p)
    \/ \E p \in pending[s] : EntryStatDone(s, p)
    \/ \E p \in pending[s] : OpenDone(s, p)
    \/ \E p \in pending[s], ioError \in BOOLEAN : ReadDone(s, p, ioError)
    \/ \E p \in pending[s], ioError \in BOOLEAN : CloseDone(s, p, ioError)

NextAll ==
    \/ \E s \in Sessions : Received(s) < MaxAllReqs /\ Requests(s)
    \/ \E s \in Sessions : Completions(s)

\* the filesystem completes every call: a completion that stays possible
\* happens
SpecAll == Init /\ [][NextAll]_vars /\ WF_vars(Completions(1))

-----------------------------------------------------------------------------
(* Two sessions, each with its own client fetching the served file: OPEN,  *)
(* READ(0, L), READ(L, L), ... until EOF, then CLOSE, the requests and the *)
(* completions of the two sessions interleaved in any order                *)

TwoSessions == {1, 2}

NextTwo ==
    \/ \E s \in Sessions : requests[s] = <<>> /\ OnOPEN(s, ServedPath, 1)
    \/ \E s \in Sessions, length \in 1..MaxChunk :
          /\ Answered(s) /\ LastReply(s).type = "handle"
          /\ OnREAD(s, LastReply(s).handle, 0, length)
    \/ \E s \in Sessions :
          /\ Answered(s) /\ LastReply(s).type = "data"
          /\ OnREAD(s, LastReq(s).handle, LastReq(s).offset + LastReq(s).length,
                    LastReq(s).length)
    \/ \E s \in Sessions :
          /\ Answered(s) /\ LastReq(s).op = "READ"
          /\ LastReply(s) = StatusReply(Len(requests[s]), "EOF")
          /\ OnCLOSE(s, LastReq(s).handle)
    \/ \E s \in Sessions : \E p \in pending[s] : OpenDone(s, p)
    \/ \E s \in Sessions : \E p \in pending[s], ioError \in BOOLEAN :
          ReadDone(s, p, ioError)
    \/ \E s \in Sessions : \E p \in pending[s], ioError \in BOOLEAN :
          CloseDone(s, p, ioError)

InitTwo == InitPathIdle /\ InitFs /\ InitSessions(TwoSessions)

SpecTwo == InitTwo /\ [][NextTwo]_vars

-----------------------------------------------------------------------------
(* The host key store: ensureHostKey called time after time (one start     *)
(* attempt at a time, within a process or across restarts), on a keyPath   *)
(* that holds a key already or does not                                    *)

KeyCall(pc, key, existed, generated) ==
    [pc |-> pc, key |-> key, existed |-> existed, generated |-> generated]

KeyCallsDone == \A c \in 1..Len(keyCalls) : keyCalls[c].pc \in {"returned", "threw"}

\* ensureHostKey is entered: await fsp.mkdir(dir, {recursive: true})
CallEnsureHostKey ==
    /\ Len(keyCalls) < MaxKeyCalls
    /\ KeyCallsDone
    /\ keyCalls' = Append(keyCalls, KeyCall("mkdir", 0, FALSE, FALSE))
    /\ UNCHANGED <<keyFile, keyGen, pathVars, fsVars, sessVars, authVars, lifeVars,
                   appVars>>

\* the mkdir settles: the function goes on to readFile, or throws
KeyDirDone(c, ok) ==
    /\ c \in 1..Len(keyCalls) /\ keyCalls[c].pc = "mkdir"
    /\ keyCalls' = [keyCalls EXCEPT ![c].pc = IF ok THEN "read" ELSE "threw"]
    /\ UNCHANGED <<keyFile, keyGen, pathVars, fsVars, sessVars, authVars, lifeVars,
                   appVars>>

\* await fsp.readFile(keyPath) settles: the content is returned, or the
\* catch, which takes every error, generates a key and goes on to
\* writeFile.  Reading an absent file fails (ENOENT); reading a file that
\* exists can fail too (EACCES, EMFILE, EIO, ..).
KeyReadDone(c, readOk) ==
    /\ c \in 1..Len(keyCalls) /\ keyCalls[c].pc = "read"
    /\ readOk => keyFile # 0
    /\ IF readOk
       THEN /\ keyCalls' = [keyCalls EXCEPT ![c] = KeyCall("returned", keyFile, TRUE, FALSE)]
            /\ UNCHANGED keyGen
       ELSE /\ keyGen' = keyGen + 1
            /\ keyCalls' = [keyCalls EXCEPT ![c] =
                                KeyCall("write", keyGen + 1, keyFile # 0, TRUE)]
    /\ UNCHANGED <<keyFile, pathVars, fsVars, sessVars, authVars, lifeVars,
                   appVars>>

\* await fsp.writeFile(keyPath, privateKey, {mode: 0o600}) settles: the
\* file holds the new key and the key is returned, or the function throws
KeyWriteDone(c, ok) ==
    /\ c \in 1..Len(keyCalls) /\ keyCalls[c].pc = "write"
    /\ IF ok
       THEN /\ keyFile' = keyCalls[c].key
            /\ keyCalls' = [keyCalls EXCEPT ![c].pc = "returned"]
       ELSE /\ keyCalls' = [keyCalls EXCEPT ![c].pc = "threw"]
            /\ UNCHANGED keyFile
    /\ UNCHANGED <<keyGen, pathVars, fsVars, sessVars, authVars, lifeVars,
                   appVars>>

\* keyPath holds no key, or a key persisted by an earlier run
InitKey ==
    /\ npRequest = <<>> /\ npRoot = RootDir /\ npResult = Idle
    /\ InitAuthIdle
    /\ InitServerIdle
    /\ InitFs
    /\ InitSessions({1})
    /\ handleCount = [s \in {1} |-> Zero]
    /\ keyGen \in {0, 1}
    /\ keyFile = keyGen
    /\ keyCalls = <<>>
    /\ InitAppIdle

NextKey ==
    \/ CallEnsureHostKey
    \/ \E c \in 1..Len(keyCalls), ok \in BOOLEAN : KeyDirDone(c, ok)
    \/ \E c \in 1..Len(keyCalls), readOk \in BOOLEAN : KeyReadDone(c, readOk)
    \/ \E c \in 1..Len(keyCalls), ok \in BOOLEAN : KeyWriteDone(c, ok)

SpecKey == InitKey /\ [][NextKey]_vars

-----------------------------------------------------------------------------
(* The two schedulers: the sync service (startScheduler, with the          *)
(* isSyncRunning guard) and the sync loop (start).  A cycle, one execution *)
(* of main(), takes any time, so timer ticks can arrive while it runs.     *)

MsLess(a, b) == a.s < b.s \/ (a.s = b.s /\ a.ms < b.ms)

\* intervalMinutes * 60 * 1000
IntervalMs(minutes) == Ms(minutes * 60, 0)

\* the largest delay a timer takes, 2^31 - 1 ms
TimeoutMax == Ms(2147483, 647)

\* the delay setInterval runs with: a delay below 1 ms or above 2^31 - 1 ms
\* is replaced by 1 ms
TimerDelay(delay) ==
    IF MsLess(delay, Ms(0, 1)) \/ MsLess(TimeoutMax, delay) THEN Ms(0, 1) ELSE delay

Cycle(trigger, by, state) == [trigger |-> trigger, by |-> by, state |-> state]

\* runOnce does start a cycle: always in the loop, in the service unless
\* one is running
RunOnceStarts == schedKind = "loop" \/ ~isSyncRunning

\* runOnce(trigger), up to its await main(); by is the caller
RunOnce(trigger, by) ==
    IF RunOnceStarts
    THEN /\ cycles' = Append(cycles, Cycle(trigger, by, "running"))
         /\ IF schedKind = "service"
            THEN /\ isSyncRunning' = TRUE
                 /\ lastSyncStatus' = [status |-> "running", trigger |-> trigger]
            ELSE UNCHANGED <<isSyncRunning, lastSyncStatus>>
    ELSE UNCHANGED <<cycles, isSyncRunning, lastSyncStatus>>

\* startScheduler / start after their await runOnce()
ScheduleInterval ==
    IF intervalMinutes > 0
    THEN /\ timerDelay' = TimerDelay(IntervalMs(intervalMinutes))
         /\ schedPc' = "scheduled"
    ELSE /\ schedPc' = "done"
         /\ UNCHANGED timerDelay

\* startScheduler (from the listen callback) / start: runOnce at once
StartScheduler ==
    /\ schedPc = "init"
    /\ RunOnce("auto", "start")
    /\ IF RunOnceStarts
       THEN schedPc' = "firstCycle" /\ UNCHANGED timerDelay
       ELSE ScheduleInterval
    /\ UNCHANGED <<schedKind, intervalMinutes, ticks, nodeEnv, responses, sftpVars,
                   upsertVars, httpVars, mainVars>>

\* main() settles: runOnce records the outcome (the service also clears
\* its flag), and the scheduler that awaited it sets its timer; the main()
\* that the import of the worker module started is awaited by no runOnce
CycleDone(c, ok) ==
    /\ c \in 1..Len(cycles) /\ cycles[c].state = "running"
    /\ cycles' = [cycles EXCEPT ![c].state = IF ok THEN "success" ELSE "error"]
    /\ IF schedKind = "service" /\ cycles[c].by # "import"
       THEN /\ isSyncRunning' = FALSE
            /\ lastSyncStatus' = [status |-> IF ok THEN "success" ELSE "error",
                                  trigger |-> cycles[c].trigger]
       ELSE UNCHANGED <<isSyncRunning, lastSyncStatus>>
    /\ IF schedPc = "firstCycle" /\ cycles[c].by = "start"
       THEN ScheduleInterval
       ELSE UNCHANGED <<schedPc, timerDelay>>
    /\ UNCHANGED <<schedKind, intervalMinutes, ticks, nodeEnv, responses, sftpVars,
                   upsertVars, httpVars, mainVars>>

\* the interval timer fires, timerDelay after it was set or last fired
TimerTick ==
    /\ timerDelay # NoTimer
    /\ Len(ticks) < MaxTicks
    /\ ticks' = Append(ticks, [after |-> timerDelay, started |-> RunOnceStarts])
    /\ RunOnce("auto", "tick")
    /\ UNCHANGED <<schedKind, intervalMinutes, schedPc, timerDelay, nodeEnv,
                   responses, sftpVars,
                   upsertVars, httpVars, mainVars>>

\* SYNC_INTERVAL_MINUTES: negative, 0 or unset, a minute, a quarter of an
\* hour, thirty days
IntervalValues == {0 - 5, 0, 1, 15, 43200}

InitSftpIdle ==
    /\ npRequest = <<>> /\ npRoot = RootDir /\ npResult = Idle
    /\ InitAuthIdle
    /\ InitLifeIdle
    /\ InitFs
    /\ InitSessions({1})
    /\ handleCount = [s \in {1} |-> Zero]

InitSched ==
    /\ InitSftpIdle
    /\ InitUpsertIdle
    /\ InitHttpIdle
    /\ InitMainIdle
    /\ schedKind \in {"service", "loop"}
    /\ intervalMinutes \in IntervalValues
    /\ schedPc = "init"
    /\ timerDelay = NoTimer
    /\ isSyncRunning = FALSE
    /\ lastSyncStatus = [status |-> "idle", trigger |-> "auto"]
    /\ cycles = <<>>
    /\ ticks = <<>>
    /\ nodeEnv = "production"
    /\ responses = <<>>

NextSched ==
    \/ StartScheduler
    \/ \E c \in 1..Len(cycles), ok \in BOOLEAN : CycleDone(c, ok)
    \/ TimerTick

SpecSched == InitSched /\ [][NextSched]_vars

-----------------------------------------------------------------------------------------------------------------------------------------------------
(* The sync service as a process: the import of the worker module, which   *)
(* runs main() itself when NODE_ENV is unset, the scheduler, the two HTTP  *)
(* routes, and process.exit(1), which main() calls when a cycle fails.     *)

MaxHttpReqs == 2

Alive == schedPc \notin {"init", "exited"}

HealthResponse ==
    [route |-> "GET /health", code |-> 200, status |-> "ok",
     sync |-> lastSyncStatus, isSyncRunning |-> isSyncRunning, started |-> FALSE]
SyncResponse(code, status, started) ==
    [route |-> "POST /sync", code |-> code, status |-> status,
     sync |-> lastSyncStatus, isSyncRunning |-> isSyncRunning, started |-> started]

\* GET /health
GetHealth ==
    /\ Alive
    /\ Len(responses) < MaxHttpReqs
    /\ responses' = Append(responses, HealthResponse)
    /\ UNCHANGED <<schedKind, intervalMinutes, schedPc, timerDelay, isSyncRunning,
                   lastSyncStatus, cycles, ticks, nodeEnv,
                   sftpVars, upsertVars, httpVars, mainVars>>

\* if (isSyncRunning) of POST /sync
SyncInProgress == isSyncRunning

\* POST /sync: 429 while a cycle runs, else runOnce('manual') and 'queued'
PostSync ==
    /\ Alive
    /\ Len(responses) < MaxHttpReqs
    /\ IF SyncInProgress
       THEN /\ responses' = Append(responses, SyncResponse(429, "running", FALSE))
            /\ UNCHANGED <<isSyncRunning, lastSyncStatus, cycles>>
       ELSE /\ RunOnce("manual", "post")
            /\ responses' = Append(responses, SyncResponse(200, "queued", RunOnceStarts))
    /\ UNCHANGED <<schedKind, intervalMinutes, schedPc, timerDelay, ticks, nodeEnv,
                   sftpVars, upsertVars, httpVars, mainVars>>

\* a cycle fails inside main(): its catch calls process.exit(1); the process
\* ends with its timer and every execution of main() in it
CycleExits(c) ==
    /\ c \in 1..Len(cycles) /\ cycles[c].state = "running"
    /\ cycles' = [k \in 1..Len(cycles) |->
                    IF cycles[k].state = "running"
                    THEN [cycles[k] EXCEPT !.state = "exited"] ELSE cycles[k]]
    /\ schedPc' = "exited"
    /\ timerDelay' = NoTimer
    /\ UNCHANGED <<schedKind, intervalMinutes, isSyncRunning, lastSyncStatus, ticks,
                   nodeEnv, responses, sftpVars, upsertVars, httpVars, mainVars>>

\* if (isMainModule || !process.env.NODE_ENV) main(): the executions of
\* main() in progress once the service has imported the worker module
ImportedCycles(node) ==
    IF node = Unset THEN <<Cycle("auto", "import", "running")>> ELSE <<>>

CycleSettles ==
    \/ \E c \in 1..Len(cycles), ok \in BOOLEAN : CycleDone(c, ok)
    \/ \E c \in 1..Len(cycles) : CycleExits(c)

InitService ==
    /\ InitSftpIdle
    /\ InitUpsertIdle
    /\ InitHttpIdle
    /\ InitMainIdle
    /\ schedKind = "service"
    /\ intervalMinutes \in {0, 1}
    /\ schedPc = "init"
    /\ timerDelay = NoTimer
    /\ isSyncRunning = FALSE
    /\ lastSyncStatus = [status |-> "idle", trigger |-> "auto"]
    /\ nodeEnv \in {Unset, "production"}
    /\ cycles = ImportedCycles(nodeEnv)
    /\ ticks = <<>>
    /\ responses = <<>>

NextService ==
    \/ StartScheduler
    \/ CycleSettles
    \/ TimerTick
    \/ GetHealth
    \/ PostSync

\* every execution of main() ends: it resolves, rejects or exits
SpecService == InitService /\ [][NextService]_vars /\ WF_vars(CycleSettles)

-----
(* NotionSyncClient.upsertLoan against one database.  The calls come one   *)
(* after the other, as syncAllLoans makes them; each call is split at its  *)
(* requests to the Notion API, any of which can fail.                      *)

MaxUpserts == 3

Entities == {"", "A", "B"}
Amounts == {1, 2}
Loans == [entity : Entities, amount : Amounts]

\* loan.entity || '(Empty)'
EntityOrEmpty(entity) == IF entity = "" THEN "(Empty)" ELSE entity

\* loanToProperties: the properties of a page written from the loan
loanToProperties(loan) == [entity |-> EntityOrEmpty(loan.entity), amount |-> loan.amount]

\* getCurrentPageValues: the Entity text of the page, '' when it has none
CurrentEntity(page) == page.entity

\* stringsEqual: both sides trimmed, an empty one counted as '(Empty)'
stringsEqual(a, b) == EntityOrEmpty(a) = EntityOrEmpty(b)

\* the pages a databases.query with the filter Entity equals text returns
QueryResults(text) == {id \in 1..Len(pages) : pages[id].entity = text}

\* findPageByEntity: the ids the call can return: the first result (any of
\* the matching pages, in the order the API lists them), null (0) when
\* there is none or the query throws
findPageByEntity(entity, ok) ==
    IF ok /\ QueryResults(EntityOrEmpty(entity)) # {}
    THEN QueryResults(EntityOrEmpty(entity))
    ELSE {0}

UpsertsSettled == \A c \in 1..Len(upserts) : upserts[c].pc \in {"done", "threw"}

\* upsertLoan(loan) up to its first await
CallUpsertLoan(loan) ==
    /\ Len(upserts) < MaxUpserts
    /\ UpsertsSettled
    /\ upserts' = Append(upserts,
          [pc |-> "query", loan |-> loan, existingPageId |-> 0,
           current |-> FALSE,
           hadPage |-> QueryResults(EntityOrEmpty(loan.entity)) # {},
           created |-> FALSE])
    /\ UNCHANGED <<pages, sftpVars, schedVars, httpVars, mainVars>>

\* the query of findPageByEntity settles; loanToProperties follows
QueryDone(c, ok) ==
    /\ c \in 1..Len(upserts) /\ upserts[c].pc = "query"
    /\ \E id \in findPageByEntity(upserts[c].loan.entity, ok) :
          upserts' = [upserts EXCEPT ![c].existingPageId = id,
                                     ![c].pc = IF id # 0 THEN "current" ELSE "create"]
    /\ UNCHANGED <<pages, sftpVars, schedVars, httpVars, mainVars>>

\* getCurrentPageValues settles: the page's values, or null when it threw
CurrentDone(c, ok) ==
    /\ c \in 1..Len(upserts) /\ upserts[c].pc = "current"
    /\ upserts' = [upserts EXCEPT ![c].current = ok, ![c].pc = "update"]
    /\ UNCHANGED <<pages, sftpVars, schedVars, httpVars, mainVars>>

\* the properties pages.update sends: the changed ones when the current
\* values were read, all of them otherwise
UpdatedPage(page, loan, current) ==
    IF current
    THEN [entity |-> IF stringsEqual(CurrentEntity(page), loan.entity)
                     THEN page.entity ELSE loanToProperties(loan).entity,
          amount |-> loan.amount]
    ELSE loanToProperties(loan)

\* pages.update settles
UpdateDone(c, ok) ==
    /\ c \in 1..Len(upserts) /\ upserts[c].pc = "update"
    /\ upserts' = [upserts EXCEPT ![c].pc = IF ok THEN "done" ELSE "threw"]
    /\ pages' = IF ok
                THEN [pages EXCEPT ![upserts[c].existingPageId] =
                        UpdatedPage(@, upserts[c].loan, upserts[c].current)]
                ELSE pages
    /\ UNCHANGED <<sftpVars, schedVars, httpVars, mainVars>>

\* pages.create settles
CreateDone(c, ok) ==
    /\ c \in 1..Len(upserts) /\ upserts[c].pc = "create"
    /\ upserts' = [upserts EXCEPT ![c].pc = IF ok THEN "done" ELSE "threw",
                                  ![c].created = ok]
    /\ pages' = IF ok THEN Append(pages, loanToProperties(upserts[c].loan)) ELSE pages
    /\ UNCHANGED <<sftpVars, schedVars, httpVars, mainVars>>

InitUpsert ==
    /\ InitSftpIdle
    /\ InitSchedIdle
    /\ InitHttpIdle
    /\ InitMainIdle
    /\ InitUpsertIdle

NextUpsert ==
    \/ \E loan \in Loans : CallUpsertLoan(loan)
    \/ \E c \in 1..Len(upserts), ok \in BOOLEAN : QueryDone(c, ok)
    \/ \E c \in 1..Len(upserts), ok \in BOOLEAN : CurrentDone(c, ok)
    \/ \E c \in 1..Len(upserts), ok \in BOOLEAN : UpdateDone(c, ok)
    \/ \E c \in 1..Len(upserts), ok \in BOOLEAN : CreateDone(c, ok)

SpecUpsert == InitUpsert /\ [][NextUpsert]_vars

-----------------------------------------------------------------------------
(* HttpCsvFetcher.fetch: one call, split at its awaits (the HTTP request   *)
(* with the reading and parsing of its body, and the backoff timer).       *)

maxRetries == 3
retryDelayMs == 5000

\* an error message as its words; message.includes(word)
Includes(message, word) == word \in Range(message)

\* a number below ten in a template literal
DecimalOf(n) == <<"0", "1", "2", "3", "4", "5", "6", "7", "8", "9">>[n + 1]

\* what fetch() rejects with on a network failure
NetworkMessage == <<"fetch", "failed">>
\* `Rate limited (429) after ${maxRetries + 1} attempts`
RateLimitedMessage == <<"Rate", "limited", "(", "429", ")", "after", DecimalOf(maxRetries + 1),
      "attempts">>
\* `Failed to fetch CSV: ${response.status} ${response.statusText}`
StatusMessage(status) == <<"Failed", "to", "fetch", "CSV:", status>>
\* what response.text() or parseLoanCsv throw: a message without either
\* word, one naming line 429 of the text, one quoting a field "fetch"
ParseMessages ==
    { <<"Invalid", "Record", "Length">>,
      <<"Invalid", "Record", "Length", "on", "line", "429">>,
      <<"Invalid", "Opening", "Quote", "value", "is", "fetch">> }

HttpError(kind, message) == [kind |-> kind, message |-> message]
\* the loans parsed from the body of the n-th response
LoansOf(n) == [kind |-> "loans", response |-> n]

\* the HTTP requests issued so far
HttpRequests == Len(httpLog) + (IF httpPc = "request" THEN 1 ELSE 0)

RetriesLeftAlways(a) == TRUE
\* attempt < this.maxRetries
RetriesLeft(a) == a < maxRetries

BackoffFixed(a) == retryDelayMs
\* this.retryDelayMs * Math.pow(2, attempt)
BackoffDelay(a) == retryDelayMs * 2^a

\* fetch() up to await fetch(this.csvUrl) of attempt 0
CallFetch ==
    /\ httpPc = "idle"
    /\ httpPc' = "request"
    /\ attempt' = 0
    /\ lastError' = NoError
    /\ UNCHANGED <<httpResult, httpLog, httpWaits, sftpVars, schedVars, upsertVars, mainVars>>

\* await new Promise(resolve => setTimeout(resolve, delay)), before continue
Backoff ==
    /\ httpPc' = "wait"
    /\ httpWaits' = Append(httpWaits,
          [before |-> HttpRequests + 1, delay |-> BackoffDelay(attempt)])
    /\ UNCHANGED <<attempt, httpResult>>

\* attempt++ and the loop condition; after the loop, throw lastError or the
\* fallback error, with the lastError the step leaves
NextAttempt(last) ==
    /\ attempt' = attempt + 1
    /\ IF attempt + 1 <= maxRetries
       THEN httpPc' = "request" /\ UNCHANGED httpResult
       ELSE /\ httpPc' = "threw"
            /\ httpResult' = IF last # NoError THEN last
                             ELSE HttpError("fallback", <<"Failed", "to", "fetch",
                                            "CSV", "after", "all", "retries">>)

\* the catch block
Catch(error) ==
    /\ lastError' = error
    /\ IF RetriesLeft(attempt) /\ Includes(error.message, "fetch")
       THEN Backoff
       ELSE IF attempt = maxRetries
               \/ (~Includes(error.message, "429") /\ ~Includes(error.message, "fetch"))
       THEN /\ httpPc' = "threw"
            /\ httpResult' = error
            /\ UNCHANGED <<attempt, httpWaits>>
       ELSE /\ NextAttempt(error)
            /\ UNCHANGED httpWaits

\* the request settles: a network failure, status 429, another status that
\* is not OK, an OK response whose body cannot be read or parsed, or an OK
\* response with its loans
HttpResponse(outcome, message) ==
    /\ httpPc = "request"
    /\ httpLog' = Append(httpLog, [attempt |-> attempt, outcome |-> outcome])
    /\ CASE outcome = "network" -> Catch(HttpError("network", NetworkMessage))
         [] outcome = "429" ->
               IF RetriesLeft(attempt)
               THEN Backoff /\ UNCHANGED lastError
               ELSE Catch(HttpError("429", RateLimitedMessage))
         [] outcome = "status" -> Catch(HttpError("status", StatusMessage(message)))
         [] outcome = "parse" -> Catch(HttpError("parse", message))
         [] outcome = "ok" ->
               /\ httpPc' = "returned"
               /\ httpResult' = LoansOf(Len(httpLog) + 1)
               /\ UNCHANGED <<attempt, lastError, httpWaits>>
    /\ UNCHANGED <<sftpVars, schedVars, upsertVars, mainVars>>

\* the backoff timer fires: continue
BackoffDone ==
    /\ httpPc = "wait"
    /\ NextAttempt(lastError)
    /\ UNCHANGED <<lastError, httpLog, httpWaits, sftpVars, schedVars, upsertVars, mainVars>>

\* statuses that are neither OK nor 429
OtherStatuses == {"404", "500"}

HttpSettles ==
    \/ \E outcome \in {"network", "429", "ok"} : HttpResponse(outcome, <<>>)
    \/ \E status \in OtherStatuses : HttpResponse("status", status)
    \/ \E message \in ParseMessages : HttpResponse("parse", message)
    \/ BackoffDone

InitHttp ==
    /\ InitSftpIdle
    /\ InitSchedIdle
    /\ InitUpsertIdle
    /\ InitMainIdle
    /\ InitHttpIdle

NextHttp ==
    \/ CallFetch
    \/ HttpSettles

\* every request settles and every timer fires
SpecHttp == InitHttp /\ [][NextHttp]_vars /\ WF_vars(HttpSettles)

-----------------------------------------------------------------------------
(* main() of the sync worker: the database mapping, the grouping of the    *)
(* fetched loans by bank and the loop over the banks, split at its awaits. *)
(* A name is the sequence of its characters.                               *)

MaxLoans == 3

LowerChar(c) == CASE c = "A" -> "a" [] c = "B" -> "b" [] OTHER -> c
\* String.prototype.toLowerCase
toLowerCase(str) == [i \in 1..Len(str) |-> LowerChar(str[i])]

\* the key of the default database
Star == <<"*">>

\* Map.get
MapGet(map, key) == IF key \in DOMAIN map THEN map[key] ELSE Unset

\* the forEach of parseDatabaseMapping: mapping.set(bank.toLowerCase(), dbId)
RECURSIVE SetEntries(_, _)
SetEntries(map, entries) ==
    IF entries = <<>> THEN map
    ELSE SetEntries(With(map, toLowerCase(Head(entries).bank), Head(entries).dbId),
                    Tail(entries))

\* parseDatabaseMapping: '*' from NOTION_DATABASE_ID, then the entries of
\* NOTION_DATABASE_MAPPING (in either of its two formats)
parseDatabaseMapping(e) ==
    SetEntries(IF e.NOTION_DATABASE_ID # Unset
               THEN With(EmptyMap, Star, e.NOTION_DATABASE_ID)
               ELSE EmptyMap,
               e.NOTION_DATABASE_MAPPING)

BankOf(loan) == toLowerCase(loan.financingInstitution)

\* groupLoansByBank: the keys of the Map, in insertion order
RECURSIVE BanksOf(_)
BanksOf(loans) ==
    IF loans = <<>> THEN <<>>
    ELSE LET rest == BanksOf(SubSeq(loans, 1, Len(loans) - 1))
             bank == BankOf(loans[Len(loans)])
         IN  IF bank \in Range(rest) THEN rest ELSE Append(rest, bank)

\* groupLoansByBank: the loans under a key (their positions in the list)
LoansOfBank(loans, bank) ==
    SelectSeq([i \in 1..Len(loans) |-> i], LAMBDA i : BankOf(loans[i]) = bank)

DatabaseDefaultFirst(map, bank) ==
    IF MapGet(map, Star) # Unset THEN MapGet(map, Star) ELSE MapGet(map, bank)
\* dbMapping.get(bank), and dbMapping.get('*') when that is undefined
DatabaseFor(map, bank) ==
    IF MapGet(map, bank) # Unset THEN MapGet(map, bank) ELSE MapGet(map, Star)

\* the loop from bank k on, up to its first await: the position of the
\* first bank with a database, the banks before it being skipped
RECURSIVE LoopFrom(_)
LoopFrom(k) ==
    IF k > Len(BanksOf(fetched)) THEN k
    ELSE IF DatabaseFor(dbMapping, BanksOf(fetched)[k]) # Unset THEN k
    ELSE LoopFrom(k + 1)

\* the loop continues at bank k: verifyConnection of the next bank that has
\* a database, or the end of main()
ContinueAt(k, skippedNow) ==
    LET next == LoopFrom(k)
    IN  /\ bankAt' = next
        /\ loanAt' = 0
        /\ mainPc' = IF next > Len(BanksOf(fetched)) THEN "done" ELSE "verify"
        /\ skipped' = skipped \cup skippedNow \cup
               {[bank |-> BanksOf(fetched)[j], why |-> "unmapped"] : j \in k..(next - 1)}

\* main() up to await fetcher.fetch(): exit(1) when no database is configured
CallMain ==
    /\ mainPc = "idle"
    /\ mainPc' = IF DOMAIN dbMapping = {} THEN "exited" ELSE "fetch"
    /\ UNCHANGED <<env, dbMapping, fetched, bankAt, loanAt, offers, totalSynced,
                   skipped, sftpVars, schedVars, upsertVars, httpVars>>

\* the fetch settles: exit(1) from the catch, return when there is no loan,
\* else the grouping and the loop up to the first verifyConnection
FetchDone(ok) ==
    /\ mainPc = "fetch"
    /\ IF ~ok
       THEN mainPc' = "exited" /\ UNCHANGED <<bankAt, loanAt, skipped>>
       ELSE IF fetched = <<>>
       THEN mainPc' = "done" /\ UNCHANGED <<bankAt, loanAt, skipped>>
       ELSE ContinueAt(1, {})
    /\ UNCHANGED <<env, dbMapping, fetched, offers, totalSynced,
                   sftpVars, schedVars, upsertVars, httpVars>>

BankHere == BanksOf(fetched)[bankAt]
Offer(position) ==
    [loan |-> LoansOfBank(fetched, BankHere)[position],
     database |-> DatabaseFor(dbMapping, BankHere)]

\* verifyConnection settles: the bank is skipped, or syncAllLoans calls
\* upsertLoan for its first loan
VerifyDone(ok) ==
    /\ mainPc = "verify"
    /\ IF ok
       THEN /\ mainPc' = "sync"
            /\ loanAt' = 1
            /\ offers' = Append(offers, Offer(1))
            /\ UNCHANGED <<bankAt, skipped>>
       ELSE /\ ContinueAt(bankAt + 1, {[bank |-> BankHere, why |-> "unreachable"]})
            /\ UNCHANGED offers
    /\ UNCHANGED <<env, dbMapping, fetched, totalSynced,
                   sftpVars, schedVars, upsertVars, httpVars>>

\* an upsertLoan of syncAllLoans settles (and the 100 ms pause after it):
\* the next loan, or totalSynced and the next bank; exit(1) when it threw
UpsertSettled(ok) ==
    /\ mainPc = "sync"
    /\ IF ~ok
       THEN /\ mainPc' = "exited"
            /\ UNCHANGED <<bankAt, loanAt, offers, totalSynced, skipped>>
       ELSE IF loanAt < Len(LoansOfBank(fetched, BankHere))
       THEN /\ loanAt' = loanAt + 1
            /\ offers' = Append(offers, Offer(loanAt + 1))
            /\ UNCHANGED <<mainPc, bankAt, totalSynced, skipped>>
       ELSE /\ totalSynced' = totalSynced + Len(LoansOfBank(fetched, BankHere))
            /\ ContinueAt(bankAt + 1, {})
            /\ UNCHANGED offers
    /\ UNCHANGED <<env, dbMapping, fetched, sftpVars, schedVars, upsertVars, httpVars>>

\* the institutions of the loans: one bank in two spellings, two others
Institutions == { <<"A">>, <<"a">>, <<"B">>, <<"c">> }
\* entries of NOTION_DATABASE_MAPPING
MappingEntries ==
    { [bank |-> <<"A">>, dbId |-> "db1"], [bank |-> <<"a">>, dbId |-> "db2"],
      [bank |-> <<"B">>, dbId |-> "db3"] }

InitMain ==
    /\ InitSftpIdle
    /\ InitSchedIdle
    /\ InitUpsertIdle
    /\ InitHttpIdle
    /\ env \in [NOTION_DATABASE_ID : {Unset, "db0"},
                 NOTION_DATABASE_MAPPING : SeqsUpTo(MappingEntries, 2)]
    /\ dbMapping = parseDatabaseMapping(env)
    /\ fetched \in SeqsUpTo([financingInstitution : Institutions], MaxLoans)
    /\ mainPc = "idle"
    /\ bankAt = 0
    /\ loanAt = 0
    /\ offers = <<>>
    /\ totalSynced = 0
    /\ skipped = {}

NextMain ==
    \/ CallMain
    \/ \E ok \in BOOLEAN : FetchDone(ok)
    \/ \E ok \in BOOLEAN : VerifyDone(ok)
    \/ \E ok \in BOOLEAN : UpsertSettled(ok)

SpecMain == InitMain /\ [][NextMain]_vars

-----
(* normalizePath on its own *)

InitPath ==
    /\ npRequest \in SeqsUpTo(PathChars, MaxPathLen)
    /\ npRoot \in Roots
    /\ npResult = Idle
    /\ InitAuthIdle
    /\ InitLifeIdle
    /\ InitAppIdle
    /\ InitFs
    /\ InitSessions({1})
    /\ handleCount = [s \in {1} |-> Zero]

NextPath == CallNormalizePath

SpecPath == InitPath /\ [][NextPath]_vars

-----------------------------------------------------------------------------------------------------------------------------------------------------
(* The authentication handler of one connection.  The client may try again *)
(* after a rejection; once an attempt is accepted the connection is ready. *)

Usernames == {"andbank", "root"}
Passwords == {"sftp-test", "andbank"}
OtherMethods == {"none", "publickey", "keyboard-interactive"}
\* ctx.password of a context that is not a password context
Undefined == "undefined"

\* the contexts a client can present: a password attempt carries a username
\* and a password, an attempt by another method carries no password
AuthContexts ==
    [method : {"password"}, username : Usernames, password : Passwords]
    \cup [method : OtherMethods, username : Usernames, password : {Undefined}]

\* the condition of the authentication handler
AcceptsWithoutPassword(ctx, cfg) ==
    ctx.method = "password" /\ ctx.username = cfg.username
Accepts(ctx, cfg) ==
    /\ ctx.method = "password"
    /\ ctx.username = cfg.username
    /\ ctx.password = cfg.password

\* what the client receives for an attempt: ctx.accept() sends
\* USERAUTH_SUCCESS; ctx.reject(), called without arguments on every
\* rejecting path, sends USERAUTH_FAILURE with no methods left and no
\* partial success
AuthResponseNamingMethod(ctx, cfg) ==
    IF Accepts(ctx, cfg)
    THEN [type |-> "USERAUTH_SUCCESS", methodsLeft |-> <<>>, partial |-> FALSE]
    ELSE [type |-> "USERAUTH_FAILURE",
          methodsLeft |-> IF ctx.method = "password" THEN <<>> ELSE <<"password">>,
          partial |-> FALSE]
AuthResponse(ctx, cfg) ==
    IF Accepts(ctx, cfg)
    THEN [type |-> "USERAUTH_SUCCESS", methodsLeft |-> <<>>, partial |-> FALSE]
    ELSE [type |-> "USERAUTH_FAILURE", methodsLeft |-> <<>>, partial |-> FALSE]

OnAuthentication(ctx) ==
    /\ ~clientReady
    /\ Len(authAttempts) < MaxAuthAttempts
    /\ authAttempts' = Append(authAttempts,
                              [ctx |-> ctx, accepted |-> Accepts(ctx, config),
                               response |-> AuthResponse(ctx, config)])
    /\ clientReady' = Accepts(ctx, config)
    /\ UNCHANGED <<config, ended, pathVars, fsVars, sessVars, keyVars, appVars, lifeVars>>

InitAuth ==
    /\ config \in [username : Usernames, password : Passwords]
    /\ authAttempts = <<>>
    /\ clientReady = FALSE
    /\ ended = {}
    /\ npRequest = <<>> /\ npRoot = RootDir /\ npResult = Idle
    /\ InitLifeIdle
    /\ InitAppIdle
    /\ InitFs
    /\ InitSessions({1})
    /\ handleCount = [s \in {1} |-> Zero]

NextAuth == \E ctx \in AuthContexts : OnAuthentication(ctx)

SpecAuth == InitAuth /\ [][NextAuth]_vars

-----------------------------------------------------------------------------
(* One connection from its first authentication attempt on: the attempts,  *)
(* then the session and its SFTP subsystem, then requests of all kinds     *)

\* client.on('session', ..) is registered inside the 'ready' handler,
\* which runs when an attempt has been accepted
SessionListenerAlways == TRUE
SessionListenerAttached == clientReady

\* the client asks for a session and its sftp subsystem: with the listener
\* attached the session is accepted and gets its own empty tables and its
\* counter at 0; with no listener the request is refused
OnSession(s) ==
    /\ s \notin Sessions
    /\ SessionListenerAttached
    /\ openFiles' = With(openFiles, s, EmptyMap)
    /\ openDirs' = With(openDirs, s, EmptyMap)
    /\ handleCount' = With(handleCount, s, Zero)
    /\ requests' = With(requests, s, <<>>)
    /\ pending' = With(pending, s, {})
    /\ replies' = With(replies, s, <<>>)
    /\ issued' = With(issued, s, <<>>)
    /\ closedKeys' = With(closedKeys, s, {})
    /\ UNCHANGED <<fsVars, otherVars>>

ConnSessions == {1}

InitConn == InitPathIdle /\ InitFs /\ InitSessions({})

NextConn ==
    \/ \E ctx \in AuthContexts : OnAuthentication(ctx)
    \/ \E s \in ConnSessions : OnSession(s)
    \/ \E s \in Sessions : Received(s) < MaxAllReqs /\ Requests(s)
    \/ \E s \in Sessions : Completions(s)

SpecConn == InitConn /\ [][NextConn]_vars

-----------------------------------------------------------------------------
(* Two sessions whose filesystem calls take any time: the calls of session *)
(* 1 may hang for ever, those of session 2 complete                        *)

\* the requests that wait for the filesystem: STAT, OPENDIR and READDIR,
\* OPEN and READ
StallRequests(s) ==
    \/ OnSTAT(s, ServedPath)
    \/ OnOPENDIR(s, <<>>)
    \/ \E handle \in Range(issued[s]) : OnREADDIR(s, handle)
    \/ OnOPEN(s, ServedPath, 1)
    \/ \E handle \in Range(issued[s]) : OnREAD(s, handle, 0, 2)

InitStall ==
    /\ InitTwo
    /\ handleCount = [s \in TwoSessions |-> Zero]

\* session 1 sends one request at a time; a request of session 2 arrives
\* while a call of session 1 is pending
NextStall ==
    \/ Received(1) < MaxStallReqs /\ pending[1] = {} /\ StallRequests(1)
    \/ Received(2) < MaxStallReqs /\ pending[1] # {} /\ StallRequests(2)
    \/ \E s \in Sessions : Completions(s)

SpecStall == InitStall /\ [][NextStall]_vars /\ WF_vars(Completions(2))

-----------------------------------------------------------------------------
(* The start-up lifecycle: startMockSftpServer / ensureMockSftpServer       *)
(* called at any time, the start attempt advancing between the calls       *)

\* if (startingPromise)
InFlightNever(p) == FALSE
InFlight(p) == p # 0

\* a call: the synchronous part of startMockSftpServer, up to the first await
CallStart ==
    /\ Len(calls) < MaxCalls
    /\ IF serverInstance # 0
       THEN /\ calls' = Append(calls, [via |-> "instance", target |-> serverInstance])
            /\ UNCHANGED <<startingPromise, starts>>
       ELSE IF InFlight(startingPromise)
       THEN /\ calls' = Append(calls, [via |-> "promise", target |-> startingPromise])
            /\ UNCHANGED <<startingPromise, starts>>
       ELSE /\ starts' = Append(starts, [pc |-> "hostKey", server |-> 0])
            /\ startingPromise' = Len(starts) + 1
            /\ calls' = Append(calls, [via |-> "promise", target |-> Len(starts) + 1])
    /\ UNCHANGED <<serverInstance, servers, pathVars, fsVars, sessVars, keyVars, appVars, authVars>>

RejectKeepsPromise(a) ==
    /\ starts' = [starts EXCEPT ![a].pc = "rejected"]
    /\ UNCHANGED startingPromise

\* the start rejects: the catch clears startingPromise and rethrows
Reject(a) ==
    /\ starts' = [starts EXCEPT ![a].pc = "rejected"]
    /\ startingPromise' = 0

\* await ensureHostKey(config.keyPath) settles
HostKeyDone(a, ok) ==
    /\ a \in 1..Len(starts) /\ starts[a].pc = "hostKey"
    /\ IF ok
       THEN /\ starts' = [starts EXCEPT ![a].pc = "mkdir"]
            /\ UNCHANGED startingPromise
       ELSE Reject(a)
    /\ UNCHANGED <<serverInstance, servers, calls, pathVars, fsVars, sessVars, keyVars, appVars, authVars>>

StartOutcomes == {"ok", "mkdir fails", "new Server throws", "listen throws"}

\* a Server on which listen() has been invoked once; listened and closedAt
\* record whether its listen callback ran and how many calls of
\* startMockSftpServer had been made when it emitted 'close'
NewServer(state) ==
    [state |-> state, listens |-> 1, listened |-> FALSE, closedAt |-> 0 - 1]

\* await fsp.mkdir(config.rootDir) settles; then new Server(..), server.listen(..),
\* the 'close' and 'error' handlers, and return server
MkdirDone(a, outcome) ==
    /\ a \in 1..Len(starts) /\ starts[a].pc = "mkdir"
    /\ IF outcome = "ok"
       THEN /\ servers' = Append(servers, NewServer("binding"))
            /\ starts' = [starts EXCEPT ![a] = [pc |-> "resolved",
                                                 server |-> Len(servers) + 1]]
            /\ UNCHANGED startingPromise
       ELSE IF outcome = "listen throws"
       THEN /\ servers' = Append(servers, NewServer("unbound"))
            /\ Reject(a)
       ELSE /\ Reject(a)
            /\ UNCHANGED servers
    /\ UNCHANGED <<serverInstance, calls, pathVars, fsVars, sessVars, keyVars, appVars, authVars>>

\* the listen callback: the socket is bound, the instance is recorded
Listening(v) ==
    /\ v \in 1..Len(servers) /\ servers[v].state = "binding"
    /\ servers' = [servers EXCEPT ![v].state = "listening", ![v].listened = TRUE]
    /\ serverInstance' = v
    /\ UNCHANGED <<startingPromise, starts, calls, pathVars, fsVars, sessVars, keyVars, appVars, authVars>>

\* binding fails (port in use, permission denied): the 'error' handler logs
ListenError(v) ==
    /\ v \in 1..Len(servers) /\ servers[v].state = "binding"
    /\ servers' = [servers EXCEPT ![v].state = "failed"]
    /\ UNCHANGED <<serverInstance, startingPromise, starts, calls,
                   pathVars, fsVars, sessVars, keyVars, appVars, authVars>>

\* the server's 'close' event, after a holder of the server closed it
ServerCloseKeepsPromise(v) ==
    /\ v \in 1..Len(servers) /\ servers[v].state \in {"listening", "failed"}
    /\ servers' = [servers EXCEPT ![v].state = "closed", ![v].closedAt = Len(calls)]
    /\ serverInstance' = 0
    /\ UNCHANGED startingPromise
    /\ UNCHANGED <<starts, calls, pathVars, fsVars, sessVars, keyVars, appVars, authVars>>
ServerClose(v) ==
    /\ v \in 1..Len(servers) /\ servers[v].state \in {"listening", "failed"}
    /\ servers' = [servers EXCEPT ![v].state = "closed", ![v].closedAt = Len(calls)]
    /\ serverInstance' = 0
    /\ startingPromise' = 0
    /\ UNCHANGED <<starts, calls, pathVars, fsVars, sessVars, keyVars, appVars, authVars>>

InitStart ==
    /\ InitPathIdle
    /\ InitFs
    /\ InitSessions({1})
    /\ handleCount = [s \in {1} |-> Zero]

NextStart ==
    \/ CallStart
    \/ \E a \in 1..Len(starts), ok \in BOOLEAN : HostKeyDone(a, ok)
    \/ \E a \in 1..Len(starts), outcome \in StartOutcomes : MkdirDone(a, outcome)
    \/ \E v \in 1..Len(servers) : Listening(v)
    \/ \E v \in 1..Len(servers) : ListenError(v)
    \/ \E v \in 1..Len(servers) : ServerClose(v)

SpecStart == InitStart /\ [][NextStart]_vars

-----------------------------------------------------------------------------
(* The start-up lifecycle with its host key store: the k-th start attempt  *)
(* makes the k-th call of ensureHostKey (the call begins in the step after *)
(* the one that begins the attempt) and goes on when that call has settled *)

\* the start attempt that has not yet entered ensureHostKey
StartEntersEnsureHostKey ==
    /\ Len(keyCalls) < Len(starts)
    /\ starts[Len(keyCalls) + 1].pc = "hostKey"
    /\ CallEnsureHostKey

\* await ensureHostKey(config.keyPath) settles as the call of attempt a did
HostKeySettled(a) ==
    /\ a \in 1..Len(keyCalls)
    /\ keyCalls[a].pc \in {"returned", "threw"}
    /\ HostKeyDone(a, keyCalls[a].pc = "returned")

NextStartKey ==
    \/ CallStart
    \/ StartEntersEnsureHostKey
    \/ \E c \in 1..Len(keyCalls), ok \in BOOLEAN : KeyDirDone(c, ok)
    \/ \E c \in 1..Len(keyCalls), readOk \in BOOLEAN : KeyReadDone(c, readOk)
    \/ \E c \in 1..Len(keyCalls), ok \in BOOLEAN : KeyWriteDone(c, ok)
    \/ \E a \in 1..Len(starts) : HostKeySettled(a)
    \/ \E a \in 1..Len(starts), outcome \in StartOutcomes : MkdirDone(a, outcome)
    \/ \E v \in 1..Len(servers) : Listening(v)
    \/ \E v \in 1..Len(servers) : ListenError(v)
    \/ \E v \in 1..Len(servers) : ServerClose(v)

SpecStartKey == InitKey /\ [][NextStartKey]_vars

-----
(* Properties of normalizePath (SpecPath) *)

\* C2: whenever normalizePath returns instead of throwing, the returned path
\* is the root directory or a descendant of it by directory components
C2_ReturnedPathWithinRoot ==
    npResult.state = "returned" => WithinRoot(npResult.path, npRoot)

-----------------------------------------------------------------------------
(* Properties of the path-carrying requests (SpecPathReq) *)

\* the path of the request, joined to the root and canonicalized, does not
\* start with the root's canonical form
EscapesRoot(pathname) ==
    ~StartsWith(pathResolve(RootDir, <<".", "/">> \o pathname), RootDir)

ReqIds(s) == 1..Len(requests[s])
RepliesTo(s, i) == {k \in 1..Len(replies[s]) : replies[s][k].reqid = i}
PendingOf(s, i) == {p \in pending[s] : p.reqid = i}
PathOps == {"STAT", "LSTAT", "OPENDIR", "OPEN"}

\* C3: a STAT, LSTAT, OPENDIR or OPEN request whose canonicalized path does
\* not start with the root is answered at once with exactly one status frame
\* that is not OK (so no attrs, no data and no handle), and no filesystem
\* call is issued for it
C3_EscapeFailsWithoutFsCall ==
    \A s \in Sessions : \A i \in ReqIds(s) :
        LET r == requests[s][i]
        IN  (r.op \in PathOps /\ EscapesRoot(r.path)) =>
               /\ Cardinality(RepliesTo(s, i)) = 1
               /\ \A k \in RepliesTo(s, i) :
                     /\ replies[s][k].type = "status"
                     /\ replies[s][k].code \in {"FAILURE", "PERMISSION_DENIED"}
               /\ PendingOf(s, i) = {}
               /\ \A c \in fsCalls : ~(c.sess = s /\ c.reqid = i)
               /\ \A k \in 1..Len(issued[s]) :
                     HandleReply(i, issued[s][k]) \notin Range(replies[s])

\* an OPENDIR and a STAT that leave the root have both been answered
C3_Witness ==
    \E s \in Sessions : \E i, j \in ReqIds(s) :
        /\ requests[s][i].op = "OPENDIR" /\ EscapesRoot(requests[s][i].path)
        /\ requests[s][j].op = "STAT" /\ EscapesRoot(requests[s][j].path)
        /\ RepliesTo(s, i) # {} /\ RepliesTo(s, j) # {}

\* C4 as stated: every request whose path resolves outside the sandbox is
\* answered with FAILURE, OPEN with any flags included
C4_EscapeAlwaysFailure ==
    \A s \in Sessions : \A i \in ReqIds(s) :
        LET r == requests[s][i]
        IN  (r.op \in PathOps /\ EscapesRoot(r.path)) =>
               \A k \in RepliesTo(s, i) : replies[s][k] = StatusReply(i, "FAILURE")

\* C4, amended: a STAT, LSTAT or OPENDIR whose canonicalized path does not
\* start with the root, and an OPEN of such a path whose flags include READ,
\* is answered with FAILURE and nothing else; an OPEN of such a path whose
\* flags lack READ is answered with PERMISSION_DENIED
C4_EscapeFailureUnlessNoRead ==
    \A s \in Sessions : \A i \in ReqIds(s) :
        LET r == requests[s][i]
            denied == r.op = "OPEN" /\ r.flags \in {0, 2}
        IN  (r.op \in PathOps /\ EscapesRoot(r.path)) =>
               /\ RepliesTo(s, i) # {}
               /\ \A k \in RepliesTo(s, i) :
                     replies[s][k] = StatusReply(i, IF denied THEN "PERMISSION_DENIED"
                                                    ELSE "FAILURE")

\* an OPEN with READ|WRITE of a path that leaves the root was answered, and
\* so was an OPEN with WRITE alone
C4_Witness ==
    \E s \in Sessions : \E i, j \in ReqIds(s) :
        /\ requests[s][i].op = "OPEN" /\ requests[s][i].flags = 3
        /\ requests[s][j].op = "OPEN" /\ requests[s][j].flags = 2
        /\ EscapesRoot(requests[s][i].path) /\ EscapesRoot(requests[s][j].path)
        /\ RepliesTo(s, i) # {} /\ RepliesTo(s, j) # {}

\* (flags & OPEN_MODE.WRITE) !== 0, OPEN_MODE.WRITE = 0x2
WantsWrite(flags) == (flags \div 2) % 2 = 1

\* C15: an OPEN whose flags include WRITE, with or without READ, is answered
\* with PERMISSION_DENIED and nothing else, no open call is issued for it
\* and no handle is sent for it
C15_WriteAccessDenied ==
    \A s \in Sessions : \A i \in ReqIds(s) :
        LET r == requests[s][i]
        IN  (r.op = "OPEN" /\ WantsWrite(r.flags)) =>
               /\ \A k \in RepliesTo(s, i) :
                     replies[s][k] = StatusReply(i, "PERMISSION_DENIED")
               /\ PendingOf(s, i) = {}
               /\ \A c \in fsCalls : ~(c.sess = s /\ c.reqid = i)

\* the OPEN requests of a session whose flags lack READ
OpensWithoutRead(s) ==
    {i \in ReqIds(s) : requests[s][i].op = "OPEN" /\ requests[s][i].flags % 2 = 0}

\* every OPEN without READ has been answered with PERMISSION_DENIED alone
\* and has issued no filesystem call, and every open call asked for 'r'
DeniedWithoutOpening ==
    /\ \A s \in Sessions : \A i \in OpensWithoutRead(s) :
          /\ Cardinality(RepliesTo(s, i)) = 1
          /\ \A k \in RepliesTo(s, i) :
                replies[s][k] = StatusReply(i, "PERMISSION_DENIED")
          /\ PendingOf(s, i) = {}
          /\ \A c \in fsCalls : ~(c.sess = s /\ c.reqid = i)
    /\ \A c \in fsCalls : c.call = "open" => c.mode = "r"

\* the step in which an OPEN without READ arrives leaves the handle
\* counter, both handle tables and the descriptors as they were
DeniedOpenChangesNothing ==
    \A s \in Sessions :
        (/\ Len(requests'[s]) = Len(requests[s]) + 1
         /\ Len(requests'[s]) \in OpensWithoutRead(s)')
        => UNCHANGED <<handleCount, openFiles, openDirs, issued, fdTable>>

\* C16: an OPEN whose flags do not include READ is answered with
\* PERMISSION_DENIED, opens no file, allocates no handle identifier and
\* leaves the handle tables unchanged; every file opened is opened with 'r'
C16_NoReadAccessDenied ==
    [](DeniedWithoutOpening) /\ [][DeniedOpenChangesNothing]_vars

\* an OPEN with WRITE alone and an OPEN with no flags were denied, and an
\* OPEN with READ opened a file
C16_Witness ==
    \E s \in Sessions : \E i, j \in ReqIds(s) :
        /\ requests[s][i].op = "OPEN" /\ requests[s][i].flags \in {0, 2}
        /\ StatusReply(i, "PERMISSION_DENIED") \in Range(replies[s])
        /\ requests[s][j].op = "OPEN" /\ requests[s][j].flags = 1
        /\ \E c \in fsCalls : c.reqid = j /\ c.call = "open" /\ c.mode = "r"
        /\ \E h \in DOMAIN openFiles[s] : HandleReply(j, h) \in Range(replies[s])

-----------------------------------------------------------------------------
(* Properties of the handle table (Spec) *)

HandleOps == {"READ", "READDIR", "CLOSE"}

\* C5: a READ, READDIR or CLOSE that arrives after a CLOSE has removed the
\* handle it names is answered at once with the FAILURE status, and with
\* nothing else, whether the handle was a file's or a directory's
C5_ClosedHandleFails ==
    \A s \in Sessions : \A i \in ReqIds(s) :
        LET r == requests[s][i]
        IN  (r.op \in HandleOps /\ r.late) =>
               /\ RepliesTo(s, i) # {}
               /\ \A k \in RepliesTo(s, i) : replies[s][k] = StatusReply(i, "FAILURE")
               /\ PendingOf(s, i) = {}

\* a file was opened, its handle closed, and a READ naming that handle
\* arrived afterwards and was answered
C5_Witness ==
    \E s \in Sessions : \E i, j \in ReqIds(s) :
        /\ requests[s][i].op = "OPEN"
        /\ HandleReply(i, requests[s][j].handle) \in Range(replies[s])
        /\ requests[s][j].op = "READ" /\ requests[s][j].late
        /\ RepliesTo(s, j) # {}

\* the identifiers carried by the handle frames of a session, in the order sent
RECURSIVE HandlesSent(_)
HandlesSent(frames) ==
    IF frames = <<>> THEN <<>>
    ELSE IF Head(frames).type = "handle"
         THEN <<Head(frames).handle>> \o HandlesSent(Tail(frames))
    ELSE HandlesSent(Tail(frames))

\* C6: every handle a session issues has an identifier strictly greater than
\* every identifier it issued before, whatever was opened and closed between
C6_HandlesStrictlyIncrease ==
    \A s \in Sessions :
        LET hs == HandlesSent(replies[s])
        IN  \A i, j \in 1..Len(hs) : i < j => Less(hs[i], hs[j])

\* two handles were issued, the second one after the first had been closed
C6_Witness ==
    \E s \in Sessions :
        LET hs == HandlesSent(replies[s])
        IN  /\ Len(hs) >= 2
            /\ hs[1] \in closedKeys[s]
            /\ \E i \in ReqIds(s) :
                  /\ requests[s][i].op = "CLOSE" /\ requests[s][i].handle = hs[1]
                  /\ \E j \in ReqIds(s) : j > i /\ HandleReply(j, hs[2]) \in Range(replies[s])

-----------------------------------------------------------------------------
(* Properties of connection teardown (SpecEnd) *)

\* the descriptors a session still holds in its file handle table
HeldFds(s) == {openFiles[s][h] : h \in DOMAIN openFiles[s]}

\* C12: once a session's connection has ended and its filesystem calls in
\* flight have completed, its file handle table is empty and none of the
\* descriptors it held is open any more
C12_TeardownReleasesHandles ==
    \A s \in ended :
        pending[s] = {} =>
            /\ openFiles[s] = EmptyMap
            /\ HeldFds(s) \cap DOMAIN fdTable = {}

-----------------------------------------------------------------------------
(* Properties of directory listing (SpecDir) *)

\* the READDIR requests that name handle h, oldest first
RECURSIVE ReaddirsOf(_, _, _)
ReaddirsOf(s, h, i) ==
    IF i > Len(requests[s]) THEN <<>>
    ELSE IF requests[s][i].op = "READDIR" /\ requests[s][i].handle = h
         THEN <<i>> \o ReaddirsOf(s, h, i + 1)
    ELSE ReaddirsOf(s, h, i + 1)

\* C9: the k-th READDIR on a directory handle is answered with the k-th entry
\* captured by its OPENDIR, and with EOF once the captured entries are used
\* up, whatever was created or deleted in the directory since the OPENDIR
C9_EachCapturedEntryOnce ==
    \A s \in Sessions : \A h \in DOMAIN openDirs[s] :
        LET files == openDirs[s][h].files
            rd == ReaddirsOf(s, h, 1)
        IN  \A k \in 1..Len(rd) : \A n \in RepliesTo(s, rd[k]) :
               IF k <= Len(files)
               THEN replies[s][n].type = "name" /\ replies[s][n].name = files[k]
               ELSE replies[s][n] = StatusReply(rd[k], "EOF")

\* request i of session s has been answered with a failure status
AnsweredWithFailure(s, i) ==
    \E k \in RepliesTo(s, i) :
        /\ replies[s][k].type = "status"
        /\ replies[s][k].code \in {"FAILURE", "PERMISSION_DENIED"}

\* the requests of kind op on handle h that were not answered with a
\* failure status or with EOF
Effective(s, op, h) ==
    {i \in ReqIds(s) :
        /\ requests[s][i].op = op /\ requests[s][i].handle = h
        /\ ~AnsweredWithFailure(s, i)
        /\ StatusReply(i, "EOF") \notin Range(replies[s])}

\* C17: requests answered with a failure status leave the handle tables as
\* they were: a handle that was issued is still in its table unless a CLOSE
\* that did not fail named it, and the cursor of an open directory has
\* advanced once per READDIR that did not fail, and by nothing else
C17_FailedRequestChangesNothing ==
    \A s \in Sessions :
        /\ \A h \in Range(issued[s]) :
              \/ h \in DOMAIN openFiles[s] \cup DOMAIN openDirs[s]
              \/ Effective(s, "CLOSE", h) # {}
        /\ \A h \in DOMAIN openDirs[s] :
              openDirs[s][h].index = Cardinality(Effective(s, "READDIR", h))

-----------------------------------------------------------------------------
(* Properties of READ (SpecRead, SpecFetch) *)

\* READ requests that named a handle the session had issued for an OPEN
ValidReads(s) ==
    {i \in ReqIds(s) :
        /\ requests[s][i].op = "READ"
        /\ \E j \in 1..(i - 1) : HandleReply(j, requests[s][i].handle) \in Range(replies[s])}

ReadFailed(s, i) == FsCall(s, i, "read failed", <<>>) \in fsCalls

\* the bytes [offset, min(offset + length, S)) of the served file
BytesAt(offset, length) ==
    SubSeq(fileData, offset + 1, Min(offset + length, Len(fileData)))

RECURSIVE DataSent(_)
DataSent(frames) ==
    IF frames = <<>> THEN <<>>
    ELSE IF Head(frames).type = "data"
         THEN Head(frames).data \o DataSent(Tail(frames))
    ELSE DataSent(Tail(frames))

\* C7: when the chunked fetch READ(0, L), READ(L, L), ... receives EOF, the
\* data received so far, concatenated, is the whole content of the file,
\* for every content and every chunk length L > 0
C7_ChunksReassembleFile ==
    \A s \in Sessions :
        (Answered(s) /\ LastReply(s) = StatusReply(Len(requests[s]), "EOF")) =>
            DataSent(replies[s]) = fileData

\* a fetch in chunks shorter than the file has received EOF
C7_Witness ==
    \E s \in Sessions :
        /\ Answered(s) /\ LastReply(s) = StatusReply(Len(requests[s]), "EOF")
        /\ LastReq(s).length < Len(fileData)
        /\ Len(requests[s]) >= 4

-----------------------------------------------------------------------------
(* Properties of authentication (SpecAuth) *)

\* C10: an authentication attempt is accepted if and only if its method is
\* 'password' and its username and password both equal the configured pair
C10_AcceptedIffConfiguredPair ==
    \A i \in 1..Len(authAttempts) :
        LET a == authAttempts[i]
        IN  a.accepted <=> /\ a.ctx.method = "password"
                           /\ a.ctx.username = config.username
                           /\ a.ctx.password = config.password

\* a password attempt with the right username and a wrong password was
\* rejected, and the next attempt, with the configured pair, was accepted
C10_Witness ==
    \E i \in 1..Len(authAttempts) : \E j \in 1..Len(authAttempts) :
        /\ i < j
        /\ authAttempts[i].ctx.method = "password"
        /\ authAttempts[i].ctx.username = config.username
        /\ authAttempts[i].ctx.password # config.password
        /\ ~authAttempts[i].accepted
        /\ authAttempts[j].accepted
        /\ clientReady

\* the factors of an attempt that are wrong
WrongFactors(ctx) ==
    {f \in {"method", "username", "password"} :
        \/ f = "method" /\ ctx.method # "password"
        \/ f = "username" /\ ctx.username # config.username
        \/ f = "password" /\ ctx.password # config.password}

\* C11: any two rejected authentication attempts receive the same response,
\* whichever of the method, the username and the password was wrong in each
C11_RejectionsIndistinguishable ==
    \A i, j \in 1..Len(authAttempts) :
        (~authAttempts[i].accepted /\ ~authAttempts[j].accepted) =>
            authAttempts[i].response = authAttempts[j].response

\* an attempt with only the password wrong and an attempt by another
\* method were both rejected
C11_Witness ==
    \E i, j \in 1..Len(authAttempts) :
        /\ ~authAttempts[i].accepted /\ ~authAttempts[j].accepted
        /\ WrongFactors(authAttempts[i].ctx) = {"password"}
        /\ "method" \in WrongFactors(authAttempts[j].ctx)
        /\ authAttempts[i].response.type = "USERAUTH_FAILURE"

-----------------------------------------------------------------------------
(* Properties of the start-up lifecycle (SpecStart) *)

\* what the promise returned to call c has settled to, if it has
Outcome(c) ==
    IF calls[c].via = "instance"
    THEN [state |-> "resolved", server |-> calls[c].target]
    ELSE LET a == starts[calls[c].target]
         IN  IF a.pc = "resolved" THEN [state |-> "resolved", server |-> a.server]
             ELSE IF a.pc = "rejected" THEN [state |-> "rejected", server |-> 0]
             ELSE [state |-> "pending", server |-> 0]

NoCloseEvent == \A v \in 1..Len(servers) : servers[v].state # "closed"
NoFailedStart == \A a \in 1..Len(starts) : starts[a].pc # "rejected"

RECURSIVE ListenCalls(_)
ListenCalls(v) == IF v = 0 THEN 0 ELSE servers[v].listens + ListenCalls(v - 1)

\* what C1 promises once the calls made so far are given
OneServerForAll ==
    /\ Len(starts) <= 1
    /\ Len(servers) <= 1
    /\ ListenCalls(Len(servers)) <= 1
    /\ \A c \in 1..Len(calls) :
          /\ Outcome(c).state # "rejected"
          /\ Outcome(c).state = "resolved" =>
                /\ Outcome(c).server = 1
                /\ Len(servers) = 1
                /\ ListenCalls(Len(servers)) = 1

ClosedListeners ==
    {v \in 1..Len(servers) : servers[v].state = "closed" /\ servers[v].listened}

\* the start attempts that calls 1..n were handed
AttemptsUpTo(n) == {calls[c].target : c \in {d \in 1..n : calls[d].via = "promise"}}

\* C13: once a listening server has emitted 'close', serverInstance and
\* startingPromise are null until the next call; that call is not handed the
\* closed instance or an earlier promise but begins a new start attempt,
\* and when the attempt resolves it resolves to a server constructed after
\* the close, on which listen() has been invoked
C13_CloseClearsLifecycle ==
    \A v \in ClosedListeners :
        LET n == servers[v].closedAt
        IN  /\ Len(calls) = n => (serverInstance = 0 /\ startingPromise = 0)
            /\ Len(calls) > n =>
                  /\ calls[n + 1].via = "promise"
                  /\ calls[n + 1].target \notin AttemptsUpTo(n)
                  /\ Outcome(n + 1).state = "resolved" =>
                        /\ Outcome(n + 1).server > v
                        /\ servers[Outcome(n + 1).server].listens = 1

\* a server listened and closed, and the next call was given a second
\* server, which is listening
C13_Witness ==
    \E v \in ClosedListeners :
        /\ Len(calls) > servers[v].closedAt
        /\ Outcome(servers[v].closedAt + 1).state = "resolved"
        /\ servers[Outcome(servers[v].closedAt + 1).server].state = "listening"
        /\ serverInstance = Outcome(servers[v].closedAt + 1).server

\* the calls that were handed the promise of the start attempt that
\* constructed server v
WaitersOf(v) ==
    {c \in 1..Len(calls) :
        calls[c].via = "promise" /\ starts[calls[c].target].server = v}

\* C14: when binding the socket of a server has failed, the promise of
\* every caller of the start attempt that constructed it has rejected, and
\* none of them has the server as a successful result
C14_BindFailureRejectsWaiters ==
    \A v \in 1..Len(servers) :
        servers[v].state = "failed" =>
            \A c \in WaitersOf(v) : Outcome(c).state = "rejected"

-----------------------------------------------------------------------------
(* Properties of the dispatcher as a whole (SpecAll) *)

\* the frames a request of kind op can be answered with
FrameTypes(op) ==
    IF op = "REALPATH" THEN {"name"}
    ELSE IF op \in {"STAT", "LSTAT"} THEN {"attrs", "status"}
    ELSE IF op \in {"OPENDIR", "OPEN"} THEN {"handle", "status"}
    ELSE IF op = "READDIR" THEN {"name", "status"}
    ELSE IF op = "READ" THEN {"data", "status"}
    ELSE {"status"}

\* no request has two replies, a request is either answered or has one
\* filesystem call in flight, and every frame sent answers a request that
\* was received, with a frame of a kind that request can have
AtMostOneReply ==
    \A s \in Sessions :
        /\ \A i \in ReqIds(s) :
              Cardinality(RepliesTo(s, i)) + Cardinality(PendingOf(s, i)) = 1
        /\ \A k \in 1..Len(replies[s]) :
              /\ replies[s][k].reqid \in ReqIds(s)
              /\ replies[s][k].type \in FrameTypes(requests[s][replies[s][k].reqid].op)

-----------------------------------------------------------------------------
(* Properties of concurrent sessions (SpecTwo) *)

\* the session's fetch has received EOF
FetchEnded(s) ==
    \E i \in ReqIds(s) :
        requests[s][i].op = "READ" /\ StatusReply(i, "EOF") \in Range(replies[s])

\* every session holds descriptors of its own, all of them open, and a
\* fetch that has received EOF has received the whole file
SessionsIndependent ==
    /\ \A s \in Sessions : HeldFds(s) \subseteq DOMAIN fdTable
    /\ \A s, t \in Sessions : s # t => HeldFds(s) \cap HeldFds(t) = {}
    /\ \A s \in Sessions : FetchEnded(s) => DataSent(replies[s]) = fileData

\* a step of session t (a request arriving or a call of t completing)
\* leaves the tables and the counter of every other session as they were
OtherTablesUntouched ==
    \A s, t \in Sessions :
        (s # t /\ (requests'[t] # requests[t] \/ pending'[t] # pending[t])) =>
            /\ openFiles'[s] = openFiles[s]
            /\ openDirs'[s] = openDirs[s]
            /\ handleCount'[s] = handleCount[s]

-----------------------------------------------------------------------------
(* Properties of the host key store (SpecKey) *)

\* C20: ensureHostKey generates a key only in a call that found no file at
\* keyPath, and the key a call has returned is the key the file holds ever
\* after: no later call replaces it
C20_KeyGeneratedOnlyWhenAbsent ==
    \A c \in 1..Len(keyCalls) :
        /\ keyCalls[c].generated => ~keyCalls[c].existed
        /\ keyCalls[c].pc = "returned" => keyCalls[c].key = keyFile

-----------------------------------------------------------------------------
(* Properties of start-up with the key store (SpecStartKey) *)

\* a filesystem call of the c-th ensureHostKey failed: the mkdir or the
\* writeFile (the call threw), or the readFile of a key file that exists
KeyFsFailure(c) ==
    \/ keyCalls[c].pc = "threw"
    \/ keyCalls[c].existed /\ keyCalls[c].generated

\* C21: a start attempt whose ensureHostKey met a filesystem failure does
\* not go on: it constructs no server and does not resolve, and the key
\* file that existed is not replaced by the key the call generated
C21_KeyFailureFailsStartup ==
    \A c \in 1..Len(keyCalls) :
        KeyFsFailure(c) =>
            /\ starts[c].pc \in {"hostKey", "rejected"}
            /\ starts[c].server = 0
            /\ keyCalls[c].existed => keyFile # keyCalls[c].key

-----------------------------------------------------------------------------
(* Properties of a connection (SpecConn) *)

SomeAttemptAccepted == \E i \in 1..Len(authAttempts) : authAttempts[i].accepted

\* C22: a session exists, and so a request has been received or answered,
\* only on a connection one of whose authentication attempts was accepted
C22_NoCommandBeforeAuthentication ==
    /\ Sessions # {} => SomeAttemptAccepted
    /\ \A s \in Sessions :
          (requests[s] # <<>> \/ replies[s] # <<>> \/ pending[s] # {}) =>
              SomeAttemptAccepted

\* after a rejected attempt and an accepted one, the session has answered
\* a request
C22_Witness ==
    /\ Len(authAttempts) = 2
    /\ ~authAttempts[1].accepted /\ authAttempts[2].accepted
    /\ \E s \in Sessions : replies[s] # <<>>

-----------------------------------------------------------------------------
(* Properties of sessions whose calls hang (SpecStall) *)

\* session s has a STAT, OPEN, READ or READDIR that is waiting for the
\* filesystem
HasUnanswered(s) == pending[s] # {}

\* C23: every request of session 2 is answered, whether or not the calls
\* pending in session 1 ever complete
C23_OtherSessionStillAnswered ==
    \A i \in 1..MaxStallReqs :
        (Len(requests[2]) >= i) ~> (RepliesTo(2, i) # {})

\* a request of session 2 arrived while a READ of session 1 was pending,
\* and has been answered with data while that READ is still pending
C23_Witness ==
    /\ \E p \in pending[1] : p.call = "read"
    /\ \E i \in ReqIds(2) :
          /\ requests[2][i].op = "READ"
          /\ \E k \in RepliesTo(2, i) : replies[2][k].type = "data"
    /\ Len(replies[1]) = 1 /\ Len(requests[1]) = 2

-----------------------------------------------------------------------------
(* Properties of the schedulers (SpecSched) *)

\* C24: a scheduler that has started has begun a first cycle at once; with
\* SYNC_INTERVAL_MINUTES not positive no timer is set and no second cycle
\* begins; with a positive value the timer is set once the first cycle has
\* finished, and each of its ticks comes one interval of that many minutes
\* after the one before and calls runOnce
C24_OneCycleThenOncePerInterval ==
    /\ schedPc # "init" => (cycles # <<>> /\ cycles[1].by = "start")
    /\ intervalMinutes <= 0 =>
          (timerDelay = NoTimer /\ ticks = <<>> /\ Len(cycles) <= 1)
    /\ timerDelay # NoTimer =>
          (intervalMinutes > 0 /\ cycles # <<>> /\ cycles[1].state # "running")
    /\ \A k \in 1..Len(ticks) : ticks[k].after = IntervalMs(intervalMinutes)

-----------------------------------------------------------------------------
(* Properties of upsertLoan (SpecUpsert) *)

\* C25: the database holds at most one page per entity name, an empty
\* entity counting as '(Empty)', and a call of upsertLoan for an entity that
\* has a page creates no page
C25_OnePagePerEntity ==
    /\ \A i, j \in 1..Len(pages) : pages[i].entity = pages[j].entity => i = j
    /\ \A c \in 1..Len(upserts) : upserts[c].hadPage => ~upserts[c].created

-----------------------------------------------------------------------------
(* Requests naming a handle of the wrong kind or no handle (Spec) *)

\* the request names no handle its operation can act on: a READ whose
\* handle is not a key of openFiles (a directory handle or an unknown id), a
\* READDIR whose handle is not a key of openDirs (a file handle or an
\* unknown id), a CLOSE whose handle is a key of neither
Misdirected(s, r) ==
    \/ r.op = "READ" /\ r.handle \notin DOMAIN openFiles[s]
    \/ r.op = "READDIR" /\ r.handle \notin DOMAIN openDirs[s]
    \/ r.op = "CLOSE" /\ r.handle \notin DOMAIN openFiles[s] \cup DOMAIN openDirs[s]

MisdirectedAnsweredFailure(s) ==
    Len(requests'[s]) = Len(requests[s]) + 1 =>
        LET i == Len(requests'[s])
            r == requests'[s][i]
        IN  Misdirected(s, r) =>
               /\ replies'[s] = Append(replies[s], StatusReply(i, "FAILURE"))
               /\ openFiles' = openFiles
               /\ openDirs' = openDirs
               /\ pending' = pending

\* C26: the step that receives a READ naming a directory handle or an
\* unknown identifier, a READDIR naming a file handle or an unknown
\* identifier, or a CLOSE naming an unknown identifier sends the FAILURE
\* status for that request and leaves openFiles and openDirs as they were
C26_WrongHandleFails == [][\A s \in Sessions : MisdirectedAnsweredFailure(s)]_vars

\* a READ named an open directory handle and a CLOSE named an identifier
\* that was never issued; both were answered FAILURE
C26_Witness ==
    \E s \in Sessions : \E i \in ReqIds(s) :
        /\ StatusReply(i, "FAILURE") \in Range(replies[s])
        /\ requests[s][i].op = "READ"
        /\ requests[s][i].handle \in DOMAIN openDirs[s]
        /\ \E j \in ReqIds(s) :
              /\ StatusReply(j, "FAILURE") \in Range(replies[s])
              /\ requests[s][j].op = "CLOSE"
              /\ ~requests[s][j].late
              /\ requests[s][j].handle \notin Range(issued[s])

-----------------------------------------------------------------------------
(* The handle counter past its last 32-bit value (Spec) *)

\* the next value of the counter is above 2^32 - 1
Exhausted(s) == Less(MaxUInt32, handleCount[s])

\* a step taken with the counter of s exhausted sends no handle frame, and
\* when it is the step of an OPEN or OPENDIR that reached createHandle it
\* sends the FAILURE status and adds no handle to a table
ExhaustedEndsInError(s) ==
    Exhausted(s) =>
        /\ HandlesSent(replies'[s]) = HandlesSent(replies[s])
        /\ handleCount'[s] # handleCount[s] =>
              /\ Len(replies'[s]) = Len(replies[s]) + 1
              /\ replies'[s][Len(replies'[s])].type = "status"
              /\ replies'[s][Len(replies'[s])].code = "FAILURE"
              /\ DOMAIN openFiles'[s] \subseteq DOMAIN openFiles[s]
              /\ DOMAIN openDirs'[s] \subseteq DOMAIN openDirs[s]
              /\ Exhausted(s)'

\* C27: no identifier is issued twice and every identifier issued fits in 32
\* bits; once the counter is exhausted no OPEN or OPENDIR gets a handle
\* reply: the request that reaches createHandle is answered FAILURE, and
\* the counter stays exhausted
C27_ExhaustionDoesNotWrap ==
    /\ [](\A s \in Sessions :
            LET hs == HandlesSent(replies[s])
            IN  /\ \A i, j \in 1..Len(hs) : hs[i] = hs[j] => i = j
                /\ \A i \in 1..Len(hs) : ~Less(MaxUInt32, hs[i]))
    /\ [][\A s \in Sessions : ExhaustedEndsInError(s)]_vars

\* the last identifier 2^32 - 1 was issued, and two later requests reached
\* createHandle and were answered FAILURE
C27_Witness ==
    \E s \in Sessions :
        /\ handleCount[s] = Succ(Succ(Succ(MaxUInt32)))
        /\ HandlesSent(replies[s]) = <<MaxUInt32>>
        /\ \E i \in ReqIds(s) :
              /\ requests[s][i].op \in {"OPEN", "OPENDIR"}
              /\ StatusReply(i, "FAILURE") \in Range(replies[s])

-----------------------------------------------------------------------------
(* REALPATH (SpecAll) *)

\* the step that receives a REALPATH sends the one name "/" for it and
\* leaves the filesystem, the calls issued and awaited, the handle tables
\* and the counter as they were
RealpathRepliesRoot(s) ==
    (/\ Len(requests'[s]) = Len(requests[s]) + 1
     /\ requests'[s][Len(requests'[s])].op = "REALPATH") =>
        /\ replies'[s] = Append(replies[s], NameReply(Len(requests'[s]), <<"/">>, 0))
        /\ UNCHANGED <<fsVars, pending, openFiles, openDirs, handleCount>>

\* C28: every REALPATH, whatever its path, is answered in the step that
\* receives it with the single name "/" and with nothing else, without a
\* filesystem call and without a change to the session's tables or counter
C28_RealpathAlwaysRoot ==
    /\ [](\A s \in Sessions : \A i \in ReqIds(s) :
            requests[s][i].op = "REALPATH" =>
                /\ Cardinality(RepliesTo(s, i)) = 1
                /\ NameReply(i, <<"/">>, 0) \in Range(replies[s])
                /\ \A c \in fsCalls : ~(c.sess = s /\ c.reqid = i))
    /\ [][\A s \in Sessions : RealpathRepliesRoot(s)]_vars

\* a REALPATH for /../b, which leaves the root, was answered with "/"
C28_Witness ==
    \E s \in Sessions : \E i \in ReqIds(s) :
        /\ requests[s][i].op = "REALPATH"
        /\ normalizePath(requests[s][i].path, RootDir).threw
        /\ NameReply(i, <<"/">>, 0) \in Range(replies[s])

-----------------------------------------------------------------------------
(* Properties of HttpCsvFetcher.fetch (SpecHttp) *)

HttpSettled == httpPc \in {"returned", "threw"}

\* the error the catch block received for the last response
LastThrown ==
    LET last == httpLog[Len(httpLog)]
    IN  {e \in {HttpError("network", NetworkMessage), HttpError("429", RateLimitedMessage)}
                \cup {HttpError("status", StatusMessage(st)) : st \in OtherStatuses}
                \cup {HttpError("parse", m) : m \in ParseMessages} :
            e.kind = last.outcome}

\* C29: a call of fetch issues at most maxRetries + 1 = 4 HTTP requests and
\* then settles: it returns the loans parsed from the last response, which
\* was a successful one, or throws the error of the last request
C29_FetchTerminates ==
    /\ [](/\ HttpRequests <= maxRetries + 1
          /\ httpPc = "returned" =>
                /\ httpLog[Len(httpLog)].outcome = "ok"
                /\ httpResult = LoansOf(Len(httpLog))
          /\ httpPc = "threw" =>
                /\ httpLog[Len(httpLog)].outcome # "ok"
                /\ httpResult = lastError
                /\ httpResult \in LastThrown)
    /\ (httpPc = "request" ~> HttpSettled)

\* four requests were made and the call threw the error of the fourth
C29_Witness ==
    /\ httpPc = "threw"
    /\ Len(httpLog) = maxRetries + 1
    /\ httpResult.kind = "network"

AllRateLimited == \A n \in 1..Len(httpLog) : httpLog[n].outcome = "429"

\* C30: while every response is a 429, the waits are 5 s before the second
\* request, 10 s before the third and 20 s before the fourth; the fourth 429
\* makes the call throw 'Rate limited (429) after 4 attempts' with no wait
\* and no request after it; and an OK response that follows a 429 makes the
\* call return the loans of that response
C30_RateLimitBackoff ==
    /\ AllRateLimited =>
          /\ httpWaits = [n \in 1..Min(Len(httpLog), 3) |->
                            [before |-> n + 1, delay |-> 5000 * 2^(n - 1)]]
          /\ Len(httpLog) <= 4
          /\ Len(httpLog) = 4 =>
                (httpPc = "threw" /\ httpResult = HttpError("429", RateLimitedMessage))
          /\ Len(httpLog) \in 1..3 => httpPc \in {"wait", "request"}
    /\ \A n \in 2..Len(httpLog) :
          (httpLog[n - 1].outcome = "429" /\ httpLog[n].outcome = "ok") =>
              (httpPc = "returned" /\ httpResult = LoansOf(n))

\* four responses, all 429, and the call has thrown
C30_Witness ==
    /\ AllRateLimited
    /\ Len(httpLog) = 4
    /\ httpPc = "threw"

\* C31: a response with a status that is neither OK nor 429, or an OK
\* response whose text cannot be parsed, ends the call: it throws, no
\* request follows that response and no backoff wait is made after it
C31_OnlyRateLimitAndNetworkRetried ==
    \A n \in 1..Len(httpLog) :
        httpLog[n].outcome \in {"status", "parse"} =>
            /\ n = Len(httpLog)
            /\ httpPc = "threw"
            /\ \A k \in 1..Len(httpWaits) : httpWaits[k].before # n + 1

-----------------------------------------------------------------------------
(* Properties of main() (SpecMain) *)

\* the entries of NOTION_DATABASE_MAPPING that name the bank of the loan,
\* whatever the case of the letters
EntriesFor(loan) ==
    {k \in 1..Len(env.NOTION_DATABASE_MAPPING) :
        toLowerCase(env.NOTION_DATABASE_MAPPING[k].bank)
            = toLowerCase(loan.financingInstitution)}

\* the database of a loan: the one mapped to its bank (the last such entry),
\* else NOTION_DATABASE_ID, which may be unset
Route(loan) ==
    IF EntriesFor(loan) # {}
    THEN env.NOTION_DATABASE_MAPPING[
             CHOOSE k \in EntriesFor(loan) : \A j \in EntriesFor(loan) : j <= k].dbId
    ELSE env.NOTION_DATABASE_ID

OffersOf(i) == {k \in 1..Len(offers) : offers[k].loan = i}
SkippedAs(why) == {x.bank : x \in {y \in skipped : y.why = why}}

\* C32: a loan is offered only to the database mapped to its lower-cased
\* bank, or to the default database when no entry names the bank, and never
\* twice; a loan with neither is not offered; when main() has run to its
\* end every loan that has a database and whose bank's connection was
\* verified has been offered once, and the total is the number of loans of
\* the banks whose sync ran
C32_LoansRoutedByBank ==
    /\ \A k \in 1..Len(offers) :
          /\ offers[k].database = Route(fetched[offers[k].loan])
          /\ offers[k].database # Unset
    /\ \A i \in 1..Len(fetched) : Cardinality(OffersOf(i)) <= 1
    /\ totalSynced <= Len(offers)
    /\ mainPc = "done" =>
          /\ totalSynced = Len(offers)
          /\ \A i \in 1..Len(fetched) :
                /\ BankOf(fetched[i]) \in SkippedAs("unmapped")
                       <=> Route(fetched[i]) = Unset
                /\ OffersOf(i) = {}
                       <=> BankOf(fetched[i]) \in SkippedAs("unmapped") \cup SkippedAs("unreachable")

\* main() has run to its end with NOTION_DATABASE_ID set: a loan went to the
\* database mapped to its bank, another to the default database
C32_Witness ==
    /\ mainPc = "done"
    /\ env.NOTION_DATABASE_ID # Unset
    /\ \E j, k \in 1..Len(offers) :
          /\ offers[j].database = env.NOTION_DATABASE_ID
          /\ offers[k].database # env.NOTION_DATABASE_ID
          /\ fetched[offers[k].loan].financingInstitution = <<"A">>
          /\ offers[k].database = "db2"

-----------------------------------------------------------------------------
(* Properties of the sync service (SpecService) *)

RunningCycles == {c \in 1..Len(cycles) : cycles[c].state = "running"}

\* C33: at most one execution of main() is in progress; a tick that comes
\* while a cycle runs starts nothing; a POST /sync answered 429 has started
\* nothing and one answered 'queued' has started a cycle
C33_OneCycleAtATime ==
    /\ Cardinality(RunningCycles) <= 1
    /\ \A k \in 1..Len(responses) :
          responses[k].route = "POST /sync" =>
              /\ responses[k].code = 429 => ~responses[k].started
              /\ responses[k].status = "queued" => responses[k].started

\* C34: isSyncRunning is true exactly when the status is 'running', and a
\* cycle that has set the flag eventually clears it
C34_FlagFollowsStatus ==
    /\ [](isSyncRunning <=> lastSyncStatus.status = "running")
    /\ (isSyncRunning ~> ~isSyncRunning)

-----------------------------------------------------------------------------
(* A start attempt that fails before its server exists (SpecStart) *)

\* the calls that were handed the promise of attempt a
CallersOf(a) == {c \in 1..Len(calls) : calls[c].via = "promise" /\ calls[c].target = a}

\* attempt a rejects in this step, from ensureHostKey or from the mkdir of
\* the root directory, without a Server having been constructed
FailsBeforeServer(a) ==
    /\ starts[a].pc \in {"hostKey", "mkdir"}
    /\ starts'[a].pc = "rejected"
    /\ servers' = servers

\* the step of the failure: the callers' promise is rejected, startingPromise
\* and serverInstance are null
FailureClearsStart ==
    \A a \in 1..Len(starts) :
        FailsBeforeServer(a) =>
            /\ startingPromise' = 0
            /\ serverInstance' = 0
            /\ starts'[a].server = 0
            /\ \A c \in CallersOf(a) : Outcome(c)' = [state |-> "rejected", server |-> 0]

\* the next call after the failure begins a new attempt
CallAfterFailureStartsAfresh ==
    (/\ Len(calls') = Len(calls) + 1
     /\ starts # <<>>
     /\ starts[Len(starts)].pc = "rejected"
     /\ starts[Len(starts)].server = 0) =>
        /\ Len(starts') = Len(starts) + 1
        /\ starts'[Len(starts')].pc = "hostKey"
        /\ calls'[Len(calls')] = [via |-> "promise", target |-> Len(starts')]
        /\ startingPromise' = Len(starts')

\* C35: when a start attempt fails in ensureHostKey or in the mkdir of the
\* root directory, the promise every caller of the attempt holds is
\* rejected, startingPromise is cleared and no server instance is
\* recorded; the next call of startMockSftpServer begins a new attempt
C35_FailedStartIsCleared ==
    [][FailureClearsStart /\ CallAfterFailureStartsAfresh]_vars

\* two callers shared an attempt that failed before its server existed, and
\* a third call began a second attempt
C35_Witness ==
    /\ Len(starts) = 2
    /\ starts[1] = [pc |-> "rejected", server |-> 0]
    /\ servers = <<>>
    /\ CallersOf(1) = {1, 2}
    /\ CallersOf(2) = {3}
    /\ Outcome(1).state = "rejected" /\ Outcome(2).state = "rejected"

\* C36: the server a call of startMockSftpServer / ensureMockSftpServer has
\* resolved to has had its listen callback run
C36_ResolvedServerIsListening ==
    \A c \in 1..Len(calls) :
        Outcome(c).state = "resolved" => servers[Outcome(c).server].listened

-----------------------------------------------------------------------------
(* The handle tables of a session (Spec) *)

\* the keys of the two tables of session s
FileKeys(s) == DOMAIN openFiles[s]
DirKeys(s) == DOMAIN openDirs[s]

\* C37: in every state of a session no identifier is a key of both
\* openFiles and openDirs, every key of either table is smaller than the
\* session's handleCount, and the index of every directory handle lies
\* between 0 and the number of entries captured at OPENDIR
C37_HandleTablesWellFormed ==
    \A s \in Sessions :
        /\ FileKeys(s) \cap DirKeys(s) = {}
        /\ \A key \in FileKeys(s) \cup DirKeys(s) : Less(key, handleCount[s])
        /\ \A key \in DirKeys(s) :
              /\ 0 <= openDirs[s][key].index
              /\ openDirs[s][key].index <= Len(openDirs[s][key].files)

\* a session holds a file handle and a directory handle whose listing has
\* been read to its end
C37_Witness ==
    \E s \in Sessions :
        /\ FileKeys(s) # {}
        /\ \E key \in DirKeys(s) :
              /\ openDirs[s][key].files # <<>>
              /\ openDirs[s][key].index = Len(openDirs[s][key].files)

====
